---- MODULE Spec2Model ----
(***************************************************************************)
(* Frame loop of HelloTriangleApplication (src/src/main.rs): draw_frame,   *)
(* recreate_swapchain, cleanup_swapchain, the winit event handlers of      *)
(* main_loop and Drop, running against a GPU that completes submitted      *)
(* command buffers asynchronously.                                         *)
(*                                                                         *)
(* The CPU side is single threaded: draw_frame runs to completion inside   *)
(* the RedrawRequested handler, so window events only arrive between two   *)
(* calls (pc = "idle").  draw_frame is cut at its blocking calls and at    *)
(* the Vulkan calls whose result it inspects, because the GPU makes        *)
(* progress between them.                                                  *)
(***************************************************************************)
EXTENDS Integers, Sequences, FiniteSets, TLC

\* const MAX_FRAMES_IN_FLIGHT: usize = 2;
MAX_FRAMES_IN_FLIGHT == 2

\* create_swap_chain asks for min_image_count + 1 images and the surface
\* reports min_image_count >= 1, so a swapchain has at least two images.
MinImages == 2

\* Largest number of swapchain images explored.
MaxImages == 3

\* Cap on the length of the GPU's pending list (never binding in the program:
\* the slot-fence wait keeps it at MAX_FRAMES_IN_FLIGHT or below).
MaxPending == 3

\* vk::Fence::null()
NullFence == -1

Slots == 0 .. (MAX_FRAMES_IN_FLIGHT - 1)

ImageCounts == MinImages .. MaxImages

VARIABLES
    queues_alias,          \* graphics_queue and present_queue are the same VkQueue
    num_images,            \* swapchain_data.images.len() (= command_buffers.len() = uniform_buffers.len())
    current_frame,         \* self.current_frame
    image_fences,          \* self.image_fences: image index -> slot whose fence claimed it, or NullFence
    frame_fences,          \* self.frame_fences: slot -> fence is signaled
    frame_buffer_resized,  \* self.frame_buffer_resized
    inflight,              \* command buffers submitted to graphics_queue and not yet completed
    pc,                    \* position of the CPU thread
    image_index,           \* local image_index of draw_frame
    present_result,        \* local present_result of draw_frame
    iter,                  \* what the current / last draw_frame call has done so far
    rebuild_owed,          \* a staleness signal was seen at present and no rebuild has run since
    panic_cause,           \* the call whose failure panicked the process
    cleanup_log,           \* who ran cleanup_swapchain last and how many submissions were in flight
    fence_image,           \* slot -> the image of the latest reset-and-submit of the slot's fence
    destroy_log,           \* the destroy calls of the latest cleanup_swapchain / Drop, in call order
    objects,               \* handle field of HelloTriangleApplication -> "init" | "rebuilt" | "destroyed"
    chain,                 \* sizes and extents of the swapchain-dependent objects
    window_size,           \* window.inner_size(), which a non-adaptive surface reports as current_extent
    adaptive,              \* the surface reports the sentinel u32::MAX as current_extent
    resize_hist,           \* progress through the resize scenario and the rebuilds seen in it
    upload,                \* the staged upload in progress: its input, position, staging buffer, GPU copy
    setup_call,            \* a setup function of initialize: its name, arguments and results
    command_refs,          \* object bound into command_buffers -> "live" | "destroyed"
    lifecycle,             \* fields whose object was overwritten alive / destroyed twice
    presenting,            \* semaphores that a queued present still has to wait on
    present_engine,        \* "eager": a present runs as soon as its semaphore is signaled; "lazy": at any later time
    debug_config           \* the debug::Configuration, its create_messenger calls and its drop

\* The state of the frame loop.
loop_vars == <<queues_alias, num_images, current_frame, image_fences,
               frame_fences, frame_buffer_resized, inflight, pc, image_index,
               present_result, iter, rebuild_owed, panic_cause, cleanup_log,
               fence_image, destroy_log, objects, chain, window_size,
               adaptive, resize_hist, command_refs, lifecycle, presenting,
               present_engine>>

vars == <<loop_vars, upload, setup_call, debug_config>>

\* The state that a setup function does not touch.
run_vars == <<loop_vars, upload, debug_config>>

\* The state which a staged upload does not touch.
frame_vars == <<loop_vars, setup_call, debug_config>>

\* The state that the debug configuration does not touch.
app_vars == <<loop_vars, upload, setup_call>>

\* No setup function is running: initialize has returned.
NoCall == [fn |-> "none", args |-> << >>, result |-> << >>]

\* No staged upload is in progress: those of initialize have returned.
NoUpload ==
    [kind |-> "none", input |-> << >>, step |-> 1, status |-> "none",
     staging |-> "none", staging_memory |-> "none", staging_data |-> << >>,
     destination |-> FALSE, device_local |-> << >>, recorded |-> "none",
     gpu_busy |-> "none", hazard |-> FALSE, log |-> << >>]

NoPanic == [call |-> "none", result |-> "none"]

\* No acquire, submit or present request has been built yet.
NoRequest == [made |-> FALSE]

NewIter(f) ==
    [frame0 |-> f, recreated |-> FALSE, reset |-> FALSE, submitted |-> FALSE,
     presented |-> FALSE, writes |-> {}, claimed |-> FALSE, waited |-> FALSE,
     write_before_wait |-> FALSE, race |-> FALSE,
     blocking |-> {}, checked |-> FALSE, acquire |-> NoRequest,
     submit |-> NoRequest, present |-> NoRequest,
     stale_submit |-> FALSE, semaphore_reuse |-> {}]

\* self.image_available_semaphores[slot]
image_available_semaphores(slot) == <<"image_available", slot>>

\* self.render_complete_semaphores[slot]
render_complete_semaphores(slot) == <<"render_complete", slot>>

\* A submit that always takes the command buffer of image 0.
SubmitInfoFirstBuffer(frame, idx) ==
    [made |-> TRUE,
     command_buffer |-> 0,
     wait_semaphore |-> image_available_semaphores(frame),
     wait_stage |-> "COLOR_ATTACHMENT_OUTPUT",
     signal_semaphore |-> render_complete_semaphores(frame),
     fence |-> frame]

\* vk::SubmitInfo built by draw_frame and the fence handed to queue_submit
SubmitInfo(frame, idx) ==
    [made |-> TRUE,
     command_buffer |-> idx,
     wait_semaphore |-> image_available_semaphores(frame),
     wait_stage |-> "COLOR_ATTACHMENT_OUTPUT",
     signal_semaphore |-> render_complete_semaphores(frame),
     fence |-> frame]

\* A present that waits on the image-available semaphore instead.
PresentInfoImageAvailable(frame, idx) ==
    [made |-> TRUE,
     wait_semaphore |-> image_available_semaphores(frame),
     image_index |-> idx]

\* vk::PresentInfoKHR built by draw_frame: present_wait_semaphores is
\* render_signal_semaphores
PresentInfo(frame, idx) ==
    [made |-> TRUE,
     wait_semaphore |-> render_complete_semaphores(frame),
     image_index |-> idx]

\* A frame slot that never advances.
NextFrameStuck(frame) == frame

\* (self.current_frame + 1) % MAX_FRAMES_IN_FLIGHT
NextFrame(frame) == (frame + 1) % MAX_FRAMES_IN_FLIGHT

\* Remove the k-th element of a sequence.
RemoveAt(s, k) == [j \in 1 .. (Len(s) - 1) |-> IF j < k THEN s[j] ELSE s[j + 1]]

\* Some pending command buffer was recorded for swapchain image i; command
\* buffer i renders into framebuffer i and reads uniform buffer i through
\* descriptor set i.
ImageInFlight(i) == \E k \in 1 .. Len(inflight) : inflight[k].image = i


(***************************************************************************)
(* Swapchain extent and the swapchain-dependent chain.                     *)
(***************************************************************************)
\* const WINDOW_WIDTH: u32 = 800;
WINDOW_WIDTH == 800

\* const WINDOW_HEIGHT: u32 = 600;
WINDOW_HEIGHT == 600

\* u32::MAX, the value an adaptive surface reports as current_extent; the
\* model checker's integers are 32 bit signed, so their largest value
\* stands for it.
U32_MAX == 2147483647

Extent2D(w, h) == [width |-> w, height |-> h]

ZeroExtent == Extent2D(0, 0)

LargeExtent == Extent2D(1024, 768)

\* The sizes the window takes: its initial size, minimized, and enlarged.
WindowSizes == {Extent2D(WINDOW_WIDTH, WINDOW_HEIGHT), ZeroExtent, LargeExtent}

\* get_physical_device_surface_capabilities: a surface either tracks the
\* window (current, min and max extent are the window's size) or is adaptive.
SurfaceCapabilities(size, adapt) ==
    IF adapt
    THEN [current_extent |-> Extent2D(U32_MAX, U32_MAX),
          min_image_extent |-> Extent2D(1, 1),
          max_image_extent |-> Extent2D(4096, 4096)]
    ELSE [current_extent |-> size,
          min_image_extent |-> size,
          max_image_extent |-> size]

\* The window size taken as it is.
clamp_none(input, min, max) == input

\* num::clamp(input, min, max)
clamp(input, min, max) ==
    IF input < min THEN min ELSE IF input > max THEN max ELSE input

\* choose_swap_extent(capabilities, window)
choose_swap_extent(capabilities, size) ==
    IF capabilities.current_extent.width # U32_MAX
    THEN capabilities.current_extent
    ELSE Extent2D(clamp(size.width, capabilities.min_image_extent.width,
                        capabilities.max_image_extent.width),
                  clamp(size.height, capabilities.min_image_extent.height,
                        capabilities.max_image_extent.height))

\* create_swapchain_image_views: one view per swapchain image
create_swapchain_image_views(images) == images

\* create_frame_buffers: one framebuffer per image view, of the given extent
create_frame_buffers(image_views, extent) ==
    [count |-> image_views, extent |-> extent]

\* One uniform buffer per frame slot instead of one per image.
create_uniform_buffers_per_slot(num_buffers) == MAX_FRAMES_IN_FLIGHT

\* create_uniform_buffers(.., num_buffers)
create_uniform_buffers(num_buffers) == num_buffers

\* create_descriptor_sets(.., size)
create_descriptor_sets(size) == size

\* create_command_buffers: num_buffers = frame_buffers.len(), each recorded
\* with the render area of the given extent
create_command_buffers(frame_buffers, extent) ==
    [count |-> frame_buffers.count, extent |-> extent]

\* The chain that initialize and recreate_swapchain build on a swapchain of
\* n images and the given extent.
BuildChain(n, extent) ==
    LET swapchain_image_views == create_swapchain_image_views(n)
        swap_chain_frame_buffers == create_frame_buffers(swapchain_image_views, extent)
        command_buffers == create_command_buffers(swap_chain_frame_buffers, extent)
    IN  [extent |-> extent,
         image_views |-> swapchain_image_views,
         pipeline_extent |-> extent,
         depth_extent |-> extent,
         framebuffers |-> swap_chain_frame_buffers.count,
         framebuffer_extent |-> swap_chain_frame_buffers.extent,
         uniform_buffers |-> create_uniform_buffers(swapchain_image_views),
         descriptor_sets |-> create_descriptor_sets(swapchain_image_views),
         command_buffers |-> command_buffers.count,
         command_extent |-> command_buffers.extent]

\* create_frame_buffers: framebuffer i attaches [image_views[i], depth_image_view];
\* the one depth image view is attached to every framebuffer.
framebuffer_attachments(i) == {<<"swapchain_image_view", i>>, <<"depth_image_view", 0>>}

\* The fields of HelloTriangleApplication that cleanup_swapchain owns.
SwapchainSubtree ==
    { "swapchain", "swapchain_image_views", "render_pass", "pipeline_layout",
      "graphics_pipeline", "depth_image", "depth_image_memory",
      "depth_image_view", "swap_chain_frame_buffers", "uniform_buffers",
      "uniform_buffers_memory", "descriptor_pool", "command_buffers" }

\* The other fields of HelloTriangleApplication created from logical_device.
DeviceOwnedOutsideSubtree ==
    { "texture_sampler", "texture_image_view", "image", "image_memory",
      "descriptor_set_layout", "vertex_buffer", "vertex_buffer_memory",
      "index_buffer", "index_buffer_memory", "image_available_semaphores",
      "render_complete_semaphores", "frame_fences", "command_pool" }

\* The handle fields of HelloTriangleApplication.
ObjectFields ==
    SwapchainSubtree \cup DeviceOwnedOutsideSubtree \cup
    {"instance", "surface", "debug_config", "logical_device",
     "graphics_queue", "present_queue"}

\* recreate_swapchain allocating a fresh command pool as well.
RecreatedFieldsWithCommandPool ==
    { "swapchain", "swapchain_image_views", "render_pass", "graphics_pipeline",
      "pipeline_layout", "depth_image", "depth_image_memory",
      "depth_image_view", "swap_chain_frame_buffers", "uniform_buffers",
      "uniform_buffers_memory", "descriptor_pool", "command_buffers",
      "command_pool" }

\* The fields recreate_swapchain assigns after cleanup_swapchain
\* (descriptor_sets live in descriptor_pool).
RecreatedFields ==
    { "swapchain", "swapchain_image_views", "render_pass", "graphics_pipeline",
      "pipeline_layout", "depth_image", "depth_image_memory",
      "depth_image_view", "swap_chain_frame_buffers", "uniform_buffers",
      "uniform_buffers_memory", "descriptor_pool", "command_buffers" }

Range(seq) == {seq[k] : k \in 1 .. Len(seq)}

\* The objects after the destroy calls of log.
Destroy(objs, log) ==
    [x \in DOMAIN objs |-> IF x \in Range(log) THEN "destroyed" ELSE objs[x]]

\* The objects after recreate_swapchain has assigned fresh handles to fields.
Recreate(objs, fields) ==
    [x \in DOMAIN objs |-> IF x \in fields THEN "rebuilt" ELSE objs[x]]

\* The objects that create_command_buffers binds into every command buffer:
\* render pass, framebuffer i, pipeline, vertex and index buffer, pipeline
\* layout and descriptor set i (allocated from descriptor_pool).
RecordedFields ==
    { "render_pass", "swap_chain_frame_buffers", "graphics_pipeline",
      "vertex_buffer", "index_buffer", "pipeline_layout", "descriptor_pool" }

\* No command buffer has been recorded yet.
NoCommands == [x \in RecordedFields |-> "none"]

\* A rebuild that keeps the command buffers it had.
record_commands_skipped(old, objs) ==
    IF old = NoCommands THEN [x \in RecordedFields |-> "live"] ELSE old

\* create_command_buffers: fresh command buffers, recorded against the
\* handles passed in.
record_commands(old, objs) ==
    [x \in RecordedFields |-> IF objs[x] = "destroyed" THEN "destroyed" ELSE "live"]

\* What recorded command buffers refer to once the objects of log are destroyed.
Dangle(refs, log) ==
    [x \in DOMAIN refs |-> IF x \in Range(log) THEN "destroyed" ELSE refs[x]]

NoLifecycle == [leaked |-> {}, double_destroyed |-> {}]

\* The fields assigned a fresh handle while their old object is not destroyed.
Leaked(objs, fields) == {x \in fields : objs[x] # "destroyed"}

\* The destroy calls of log made on an object that is already destroyed.
DoubleDestroyed(objs, log) ==
    {x \in Range(log) : objs[x] = "destroyed"} \cup
    {log[j] : j \in {i \in 1 .. Len(log) : \E k \in 1 .. (i - 1) : log[k] = log[i]}}

\* Frame fences created without the SIGNALED flag.
create_synchronisation_primitives_unsignaled == [s \in Slots |-> FALSE]

\* create_synchronisation_primitives: every frame fence is created with
\* vk::FenceCreateFlags::SIGNALED.
create_synchronisation_primitives == [s \in Slots |-> TRUE]

\* initialize was given no debug::Configuration.
NoDebugConfig ==
    [present |-> FALSE, loader |-> 0, messenger |-> 0, calls |-> << >>,
     created |-> 0, destroyed |-> << >>, instance |-> "live", drop_pos |-> 0]

\* Resize scenario (800,600) -> (0,0) -> (1024,768): pos is 0 before the
\* first change, 1 once minimized, 2 once enlarged, 3 off the scenario.
ScenarioStep(pos, size) ==
    IF pos = 0 /\ size = ZeroExtent THEN 1
    ELSE IF pos = 1 /\ size = LargeExtent THEN 2
    ELSE 3

(***************************************************************************)
(* State after HelloTriangleApplication::initialize.                       *)
(***************************************************************************)
Init ==
    /\ queues_alias \in BOOLEAN
    /\ num_images \in ImageCounts
    /\ current_frame = 0
    /\ image_fences = [i \in 0 .. (num_images - 1) |-> NullFence]
    /\ frame_fences = create_synchronisation_primitives
    /\ frame_buffer_resized = FALSE
    /\ inflight = << >>
    /\ pc = "idle"
    /\ image_index = 0
    /\ present_result = "none"
    /\ iter = NewIter(0)
    /\ rebuild_owed = FALSE
    /\ panic_cause = NoPanic
    /\ cleanup_log = [by |-> "none", busy |-> 0]
    /\ fence_image = [s \in Slots |-> {}]
    /\ destroy_log = << >>
    /\ objects = [x \in ObjectFields |-> "init"]
    /\ window_size = Extent2D(WINDOW_WIDTH, WINDOW_HEIGHT)
    /\ adaptive = FALSE
    /\ chain = BuildChain(num_images,
                          choose_swap_extent(SurfaceCapabilities(window_size, adaptive),
                                             window_size))
    /\ resize_hist = [pos |-> 0, at_zero |-> FALSE, at_final |-> 0]
    /\ command_refs = record_commands(NoCommands, objects)
    /\ lifecycle = NoLifecycle
    /\ presenting = {}
    /\ present_engine = "eager"
    /\ debug_config = NoDebugConfig
    /\ upload = NoUpload
    /\ setup_call = NoCall

Panic(call, result) ==
    /\ pc' = "panicked"
    /\ panic_cause' = [call |-> call, result |-> result]

(***************************************************************************)
(* The blocking calls: each returns Ok only once its condition holds.      *)
(***************************************************************************)
\* A slot wait that returns at once.
SlotFenceWaitNone == TRUE

\* wait_for_fences(&[frame_fences[current_frame]], true, u64::MAX)
SlotFenceWait == frame_fences[current_frame]

\* An image-in-flight check that never waits.
ImageFenceWaitNone(idx) == TRUE

\* if image_fences[image_index] != null { wait_for_fences(&[image_fences[image_index]], ..) }
ImageFenceWait(idx) ==
    image_fences[idx] # NullFence => frame_fences[image_fences[idx]]

\* A rebuild that does not drain the device first.
DeviceWaitIdleNone == TRUE

\* logical_device.device_wait_idle()
DeviceWaitIdle == inflight = << >>

\* logical_device.queue_wait_idle(self.present_queue): drains the present
\* queue only; it covers the frame submissions exactly when the graphics
\* queue is that same queue.
QueueWaitIdle == queues_alias => inflight = << >>

\* A submission that will signal semaphore x is still in flight.
SignalPending(x) == \E k \in 1 .. Len(inflight) : inflight[k].signal_semaphore = x

\* Semaphore x carries a signal, or will get one from a submission in
\* flight, that no wait has consumed: a submission in flight waits on it or
\* signals it, or a queued present has still to wait on it.
Unconsumed(x) ==
    \/ x \in presenting
    \/ \E k \in 1 .. Len(inflight) :
          x \in {inflight[k].wait_semaphore, inflight[k].signal_semaphore}

(***************************************************************************)
(* GPU: a submitted command buffer completes and signals its fence.        *)
(***************************************************************************)
GpuComplete ==
    /\ pc # "dropped"
    /\ \E k \in 1 .. Len(inflight) :
        /\ frame_fences' = [frame_fences EXCEPT ![inflight[k].slot] = TRUE]
        /\ inflight' = RemoveAt(inflight, k)
        /\ presenting' = IF present_engine = "eager"
                         THEN presenting \ {inflight[k].signal_semaphore}
                         ELSE presenting
    /\ UNCHANGED <<queues_alias, num_images, current_frame, image_fences,
                   frame_buffer_resized, pc, image_index, present_result,
                   iter, rebuild_owed, panic_cause, cleanup_log,
                   fence_image, destroy_log,
                   objects, chain, window_size, adaptive, resize_hist,
                   upload,
                   setup_call,
                   command_refs, lifecycle, debug_config,
                   present_engine>>

\* Presentation engine: a queued present runs once the semaphore it waits on
\* is signaled, which consumes the signal.
PresentExecutes ==
    /\ pc # "dropped"
    /\ present_engine = "lazy"
    /\ \E x \in presenting :
          /\ ~SignalPending(x)
          /\ presenting' = presenting \ {x}
    /\ UNCHANGED <<queues_alias, num_images, current_frame, image_fences,
                   frame_fences, frame_buffer_resized, inflight, pc,
                   image_index, present_result, iter, rebuild_owed,
                   panic_cause, cleanup_log, fence_image, destroy_log,
                   objects, chain, window_size, adaptive, resize_hist,
                   upload, setup_call, command_refs, lifecycle, debug_config,
                   present_engine>>

(***************************************************************************)
(* main_loop event handlers.                                               *)
(***************************************************************************)
\* Event::WindowEvent { event: WindowEvent::Resized(_) } => frame_buffer_resized = true
Resized ==
    /\ pc = "idle"
    /\ frame_buffer_resized' = TRUE
    /\ UNCHANGED <<queues_alias, num_images, current_frame, image_fences,
                   frame_fences, inflight, pc, image_index, present_result,
                   iter, rebuild_owed, panic_cause, cleanup_log,
                   fence_image, destroy_log,
                   objects, chain, window_size, adaptive, resize_hist,
                   upload,
                   setup_call,
                   command_refs, lifecycle, presenting, debug_config,
                   present_engine>>

\* Event::RedrawRequested(_) => self.draw_frame()
RedrawRequested ==
    /\ pc = "idle"
    /\ pc' = "wait_slot"
    /\ iter' = NewIter(current_frame)
    /\ present_result' = "none"
    /\ UNCHANGED <<queues_alias, num_images, current_frame, image_fences,
                   frame_fences, frame_buffer_resized, inflight, image_index,
                   rebuild_owed, panic_cause, cleanup_log,
                   fence_image, destroy_log,
                   objects, chain, window_size, adaptive, resize_hist,
                   upload,
                   setup_call,
                   command_refs, lifecycle, presenting, debug_config,
                   present_engine>>

\* Event::WindowEvent { event: WindowEvent::CloseRequested } => ControlFlow::Exit
CloseRequested ==
    /\ pc = "idle"
    /\ pc' = "exiting"
    /\ UNCHANGED <<queues_alias, num_images, current_frame, image_fences,
                   frame_fences, frame_buffer_resized, inflight, image_index,
                   present_result, iter, rebuild_owed, panic_cause, cleanup_log,
                   fence_image, destroy_log,
                   objects, chain, window_size, adaptive, resize_hist,
                   upload,
                   setup_call,
                   command_refs, lifecycle, presenting, debug_config,
                   present_engine>>

(***************************************************************************)
(* cleanup_swapchain: destroys framebuffers, uniform buffers, depth        *)
(* resources, descriptor pool, command buffers, pipeline, render pass,     *)
(* image views and the swapchain.                                          *)
(***************************************************************************)
cleanup_swapchain(who) ==
    cleanup_log' = [by |-> who, busy |-> Len(inflight)]

\* cleanup_swapchain with the swapchain destroyed first.
CleanupOrderSwapchainFirst ==
    << "swapchain", "swap_chain_frame_buffers", "uniform_buffers",
       "uniform_buffers_memory", "depth_image_view", "depth_image",
       "depth_image_memory", "descriptor_pool", "command_buffers",
       "graphics_pipeline", "pipeline_layout", "render_pass",
       "swapchain_image_views" >>

\* The destroy / free calls of cleanup_swapchain, in the order of the code.
CleanupOrder ==
    << "swap_chain_frame_buffers", "uniform_buffers", "uniform_buffers_memory",
       "depth_image_view", "depth_image", "depth_image_memory",
       "descriptor_pool", "command_buffers", "graphics_pipeline",
       "pipeline_layout", "render_pass", "swapchain_image_views",
       "swapchain" >>

\* Drop with destroy_device called before the synchronisation objects and
\* the command pool are gone.
DropOrderDeviceEarly ==
    << "debug_config", "texture_sampler", "texture_image_view", "image",
       "image_memory", "descriptor_set_layout", "vertex_buffer",
       "vertex_buffer_memory", "index_buffer", "index_buffer_memory",
       "logical_device", "image_available_semaphores",
       "render_complete_semaphores", "frame_fences", "command_pool",
       "surface", "instance" >>

\* What Drop destroys after cleanup_swapchain, in the order of the code.
DropOrder ==
    << "debug_config", "texture_sampler", "texture_image_view", "image",
       "image_memory", "descriptor_set_layout", "vertex_buffer",
       "vertex_buffer_memory", "index_buffer", "index_buffer_memory",
       "image_available_semaphores", "render_complete_semaphores",
       "frame_fences", "command_pool", "surface", "logical_device",
       "instance" >>

\* Drop leaving the swapchain-dependent objects alone.
DropCallsWithoutCleanup == DropOrder

\* The destroy calls of Drop: self.cleanup_swapchain() and then the rest.
DropCalls == CleanupOrder \o DropOrder

\* impl Drop for HelloTriangleApplication
Drop ==
    /\ pc = "exiting"
    /\ cleanup_swapchain("drop")
    /\ destroy_log' = DropCalls
    /\ objects' = Destroy(objects, DropCalls)
    /\ command_refs' = Dangle(command_refs, DropCalls)
    /\ lifecycle' = [lifecycle EXCEPT
           !.double_destroyed = @ \cup DoubleDestroyed(objects, DropCalls)]
    /\ pc' = "dropped"
    /\ UNCHANGED <<queues_alias, num_images, current_frame, image_fences,
                   frame_fences, frame_buffer_resized, inflight, image_index,
                   present_result, iter, rebuild_owed, panic_cause,
                   fence_image,
                   chain, window_size, adaptive, resize_hist,
                   upload,
                   setup_call,
                   presenting, debug_config,
                   present_engine>>

(***************************************************************************)
(* draw_frame                                                              *)
(***************************************************************************)
\* wait_for_fences on the current slot's fence
WaitSlot ==
    /\ pc = "wait_slot"
    /\ iter' = [iter EXCEPT !.blocking = @ \cup {"wait_for_fences(slot)"}]
    /\ \/ /\ SlotFenceWait
          /\ pc' = "acquire"
          /\ UNCHANGED panic_cause
       \/ Panic("wait_for_fences", "error")
    /\ UNCHANGED <<queues_alias, num_images, current_frame, image_fences,
                   frame_fences, frame_buffer_resized, inflight, image_index,
                   present_result, rebuild_owed, cleanup_log,
                   fence_image, destroy_log,
                   objects, chain, window_size, adaptive, resize_hist,
                   upload,
                   setup_call,
                   command_refs, lifecycle, presenting, debug_config,
                   present_engine>>

\* acquire_next_image: Ok((idx, _)) | Err(ERROR_OUT_OF_DATE_KHR) | Err(_)
Acquire ==
    /\ pc = "acquire"
    /\ \/ \E idx \in 0 .. (num_images - 1) :
            /\ image_index' = idx
            /\ iter' = [iter EXCEPT
                            !.acquire =
                                [made |-> TRUE,
                                 semaphore |-> image_available_semaphores(current_frame),
                                 image_index |-> idx],
                            !.semaphore_reuse =
                                IF Unconsumed(image_available_semaphores(current_frame))
                                THEN @ \cup {image_available_semaphores(current_frame)}
                                ELSE @]
            /\ pc' = "update_uniform_buffer"
            /\ UNCHANGED panic_cause
       \/ /\ pc' = "recreate_swapchain"
          /\ iter' = [iter EXCEPT !.recreated = TRUE]
          /\ UNCHANGED <<panic_cause, image_index>>
       \/ /\ Panic("acquire_next_image", "error")
          /\ UNCHANGED <<image_index, iter>>
    /\ UNCHANGED <<queues_alias, num_images, current_frame, image_fences,
                   frame_fences, frame_buffer_resized, inflight,
                   present_result, rebuild_owed, cleanup_log,
                   fence_image, destroy_log,
                   objects, chain, window_size, adaptive, resize_hist,
                   upload,
                   setup_call,
                   command_refs, lifecycle, presenting, debug_config,
                   present_engine>>

\* draw_frame carrying on with image 0 after the rebuild.
AfterRecreateFallThrough == "update_uniform_buffer"

\* Where the CPU is once recreate_swapchain has returned into draw_frame:
\* `if recreated { return; }` ends the handler.
AfterRecreate == "idle"

\* recreate_swapchain: device_wait_idle, cleanup_swapchain, then the whole
\* dependent chain is rebuilt for the new swapchain's image count.
\* image_fences is not touched.
recreate_swapchain ==
    /\ pc = "recreate_swapchain"
    /\ iter' = [iter EXCEPT !.blocking = @ \cup {"device_wait_idle"}]
    /\ \/ /\ DeviceWaitIdle
          /\ presenting' = {}
          /\ cleanup_swapchain("recreate")
          /\ destroy_log' = CleanupOrder
          /\ \/ \E n \in ImageCounts :
                  /\ num_images' = n
                  /\ chain' = BuildChain(n,
                        choose_swap_extent(SurfaceCapabilities(window_size, adaptive),
                                           window_size))
                  /\ objects' = Recreate(Destroy(objects, CleanupOrder), RecreatedFields)
                  /\ command_refs' =
                         record_commands(Dangle(command_refs, CleanupOrder),
                                         Recreate(Destroy(objects, CleanupOrder),
                                                  RecreatedFields))
                  /\ lifecycle' =
                         [leaked |-> lifecycle.leaked \cup
                                        Leaked(Destroy(objects, CleanupOrder),
                                               RecreatedFields),
                          double_destroyed |-> lifecycle.double_destroyed \cup
                                        DoubleDestroyed(objects, CleanupOrder)]
                  /\ resize_hist' = [resize_hist EXCEPT
                        !.at_zero = (@ \/ window_size = ZeroExtent),
                        !.at_final = IF resize_hist.pos = 2 /\ @ < 2 THEN @ + 1 ELSE @]
                  /\ rebuild_owed' = FALSE
                  /\ image_index' = 0
                  /\ pc' = AfterRecreate
                  /\ UNCHANGED panic_cause
             \/ /\ Panic("create_swap_chain", "error")
                /\ objects' = Destroy(objects, CleanupOrder)
                /\ command_refs' = Dangle(command_refs, CleanupOrder)
                /\ lifecycle' = [lifecycle EXCEPT
                       !.double_destroyed = @ \cup DoubleDestroyed(objects, CleanupOrder)]
                /\ resize_hist' = [resize_hist EXCEPT
                        !.at_zero = (@ \/ window_size = ZeroExtent)]
                /\ UNCHANGED <<num_images, rebuild_owed, image_index, chain>>
       \/ /\ Panic("device_wait_idle", "error")
          /\ UNCHANGED <<num_images, rebuild_owed, image_index, cleanup_log,
                         destroy_log, objects, chain, resize_hist,
                         command_refs, lifecycle, presenting>>
    /\ UNCHANGED <<queues_alias, current_frame, image_fences, frame_fences,
                   frame_buffer_resized, inflight, present_result,
                   fence_image, window_size, adaptive,
                   upload,
                   setup_call,
                   debug_config,
                   present_engine>>

\* update_uniform_buffer(image_index): map, copy, unmap of
\* uniform_buffers_memory[image_index]
update_uniform_buffer ==
    /\ pc = "update_uniform_buffer"
    /\ \/ /\ iter' = [iter EXCEPT
                !.writes = iter.writes \cup {image_index},
                !.claimed = (image_index \in DOMAIN image_fences
                             /\ image_fences[image_index] # NullFence),
                !.write_before_wait = (image_index \in DOMAIN image_fences
                                       /\ image_fences[image_index] # NullFence
                                       /\ ~iter.waited),
                !.race = ImageInFlight(image_index)]
          /\ pc' = "wait_image"
          /\ UNCHANGED panic_cause
       \/ /\ Panic("map_memory", "error")
          /\ UNCHANGED iter
    /\ UNCHANGED <<queues_alias, num_images, current_frame, image_fences,
                   frame_fences, frame_buffer_resized, inflight, image_index,
                   present_result, rebuild_owed, cleanup_log,
                   fence_image, destroy_log,
                   objects, chain, window_size, adaptive, resize_hist,
                   upload,
                   setup_call,
                   command_refs, lifecycle, presenting, debug_config,
                   present_engine>>

\* The image-in-flight check and the claim of the image by the slot's fence.
WaitImage ==
    /\ pc = "wait_image"
    /\ \/ /\ image_index \in DOMAIN image_fences
          /\ ImageFenceWait(image_index)
          /\ iter' = [iter EXCEPT
                !.waited = (image_fences[image_index] # NullFence),
                !.checked = TRUE,
                !.blocking = IF image_fences[image_index] # NullFence
                             THEN @ \cup {"wait_for_fences(image)"} ELSE @]
          /\ image_fences' = [image_fences EXCEPT ![image_index] = current_frame]
          /\ pc' = "submit"
          /\ UNCHANGED panic_cause
       \/ /\ image_index \in DOMAIN image_fences
          /\ image_fences[image_index] # NullFence
          /\ Panic("wait_for_fences", "error")
          /\ UNCHANGED <<iter, image_fences>>
       \/ /\ image_index \notin DOMAIN image_fences   \* index out of bounds
          /\ Panic("image_fences_index", "out_of_bounds")
          /\ UNCHANGED <<iter, image_fences>>
    /\ UNCHANGED <<queues_alias, num_images, current_frame, frame_fences,
                   frame_buffer_resized, inflight, image_index,
                   present_result, rebuild_owed, cleanup_log,
                   fence_image, destroy_log,
                   objects, chain, window_size, adaptive, resize_hist,
                   upload,
                   setup_call,
                   command_refs, lifecycle, presenting, debug_config,
                   present_engine>>

\* reset_fences(&[frame_fences[current_frame]]) then
\* queue_submit(graphics_queue, [command_buffers[image_index]], frame_fences[current_frame])
Submit ==
    /\ pc = "submit"
    /\ \/ /\ Len(inflight) < MaxPending
          /\ frame_fences' = [frame_fences EXCEPT ![current_frame] = FALSE]
          /\ LET info == SubmitInfo(current_frame, image_index)
             IN  /\ inflight' = Append(inflight,
                                        [slot |-> info.fence,
                                         image |-> info.command_buffer,
                                         wait_semaphore |-> info.wait_semaphore,
                                         signal_semaphore |-> info.signal_semaphore])
                 /\ iter' = [iter EXCEPT
                        !.reset = TRUE, !.submitted = TRUE, !.submit = info,
                        !.stale_submit =
                            (\/ objects["command_buffers"] = "destroyed"
                             \/ \E x \in RecordedFields : command_refs[x] # "live"),
                        !.semaphore_reuse =
                            IF Unconsumed(info.signal_semaphore)
                            THEN @ \cup {info.signal_semaphore} ELSE @]
                 /\ fence_image' = [fence_image EXCEPT
                                       ![info.fence] = {info.command_buffer}]
          /\ pc' = "present"
          /\ UNCHANGED panic_cause
       \/ /\ frame_fences' = [frame_fences EXCEPT ![current_frame] = FALSE]
          /\ iter' = [iter EXCEPT !.reset = TRUE]
          /\ Panic("queue_submit", "error")
          /\ UNCHANGED <<inflight, fence_image>>
       \/ /\ Panic("reset_fences", "error")
          /\ UNCHANGED <<frame_fences, inflight, iter, fence_image>>
    /\ UNCHANGED <<queues_alias, num_images, current_frame, image_fences,
                   frame_buffer_resized, image_index, present_result,
                   rebuild_owed, cleanup_log,
                   destroy_log,
                   objects, chain, window_size, adaptive, resize_hist,
                   upload,
                   setup_call,
                   command_refs, lifecycle, presenting, debug_config,
                   present_engine>>

\* queue_present(present_queue, ..): Ok(false) | Ok(true) | Err(OUT_OF_DATE) | Err(other)
PresentResults == {"success", "suboptimal", "out_of_date", "device_lost"}

Present ==
    /\ pc = "present"
    /\ \E r \in PresentResults : present_result' = r
    /\ iter' = [iter EXCEPT !.presented = TRUE,
                            !.present = PresentInfo(current_frame, image_index)]
    /\ LET x == PresentInfo(current_frame, image_index).wait_semaphore
       IN  presenting' = IF present_engine = "eager" /\ ~SignalPending(x)
                         THEN presenting
                         ELSE presenting \cup {x}
    /\ pc' = "queue_wait_idle"
    /\ UNCHANGED <<queues_alias, num_images, current_frame, image_fences,
                   frame_fences, frame_buffer_resized, inflight, image_index,
                   rebuild_owed, panic_cause, cleanup_log,
                   fence_image, destroy_log,
                   objects, chain, window_size, adaptive, resize_hist,
                   upload,
                   setup_call,
                   command_refs, lifecycle, debug_config,
                   present_engine>>

\* match queue_wait_idle(present_queue) { Ok(_) => {}, Err(result) => println!(..) }
WaitPresentQueue ==
    /\ pc = "queue_wait_idle"
    /\ \/ /\ QueueWaitIdle  \* Ok: the presents whose semaphore is signaled have run
          /\ presenting' = {x \in presenting : SignalPending(x)}
       \/ UNCHANGED presenting  \* Err: printed, draw_frame carries on
    /\ iter' = [iter EXCEPT !.blocking = @ \cup {"queue_wait_idle"}]
    /\ pc' = "match_present"
    /\ UNCHANGED <<queues_alias, num_images, current_frame, image_fences,
                   frame_fences, frame_buffer_resized, inflight, image_index,
                   present_result, rebuild_owed, panic_cause, cleanup_log,
                   fence_image, destroy_log,
                   objects, chain, window_size, adaptive, resize_hist,
                   upload,
                   setup_call,
                   command_refs, lifecycle, debug_config,
                   present_engine>>

\* A staleness signal at present time: the present result or the resize flag.
PresentStale ==
    \/ present_result \in {"suboptimal", "out_of_date"}
    \/ frame_buffer_resized

\* match (present_result, self.frame_buffer_resized) { .. } and the advance
\* of current_frame.
MatchPresent ==
    /\ pc = "match_present"
    /\ rebuild_owed' = (rebuild_owed \/ PresentStale)
    /\ \/ /\ frame_buffer_resized                     \* (_, true)
          /\ frame_buffer_resized' = FALSE
          /\ current_frame' = NextFrame(current_frame)
          /\ pc' = "idle"
          /\ UNCHANGED panic_cause
       \/ /\ ~frame_buffer_resized                    \* (Ok(_), _)
          /\ present_result \in {"success", "suboptimal"}
          /\ current_frame' = NextFrame(current_frame)
          /\ pc' = "idle"
          /\ UNCHANGED <<panic_cause, frame_buffer_resized>>
       \/ /\ ~frame_buffer_resized                    \* (Err(_), _)
          /\ present_result \in {"out_of_date", "device_lost"}
          /\ Panic("queue_present", present_result)
          /\ UNCHANGED <<current_frame, frame_buffer_resized>>
    /\ UNCHANGED <<queues_alias, num_images, image_fences, frame_fences,
                   inflight, image_index, present_result, iter, cleanup_log,
                   fence_image, destroy_log,
                   objects, chain, window_size, adaptive, resize_hist,
                   upload,
                   setup_call,
                   command_refs, lifecycle, presenting, debug_config,
                   present_engine>>

Next ==
    \/ GpuComplete
    \/ Resized
    \/ RedrawRequested
    \/ CloseRequested
    \/ Drop
    \/ WaitSlot
    \/ Acquire
    \/ recreate_swapchain
    \/ update_uniform_buffer
    \/ WaitImage
    \/ Submit
    \/ Present
    \/ WaitPresentQueue
    \/ MatchPresent

Spec == Init /\ [][Next]_vars

(***************************************************************************)
(* The frame loop on a GPU that completes every command buffer submitted   *)
(* to it: a completion that stays possible eventually happens.  Nothing is *)
(* assumed about the CPU thread, which may stay in a wait for ever.  The   *)
(* graphics and the present queue are distinct, the case in which          *)
(* queue_wait_idle(present_queue) never holds draw_frame back.             *)
(***************************************************************************)
FairInit ==
    /\ queues_alias = FALSE
    /\ num_images \in ImageCounts
    /\ current_frame = 0
    /\ image_fences = [i \in 0 .. (num_images - 1) |-> NullFence]
    /\ frame_fences = create_synchronisation_primitives
    /\ frame_buffer_resized = FALSE
    /\ inflight = << >>
    /\ pc = "idle"
    /\ image_index = 0
    /\ present_result = "none"
    /\ iter = NewIter(0)
    /\ rebuild_owed = FALSE
    /\ panic_cause = NoPanic
    /\ cleanup_log = [by |-> "none", busy |-> 0]
    /\ fence_image = [s \in Slots |-> {}]
    /\ destroy_log = << >>
    /\ objects = [x \in ObjectFields |-> "init"]
    /\ window_size = Extent2D(WINDOW_WIDTH, WINDOW_HEIGHT)
    /\ adaptive = FALSE
    /\ chain = BuildChain(num_images,
                          choose_swap_extent(SurfaceCapabilities(window_size, adaptive),
                                             window_size))
    /\ resize_hist = [pos |-> 0, at_zero |-> FALSE, at_final |-> 0]
    /\ command_refs = record_commands(NoCommands, objects)
    /\ lifecycle = NoLifecycle
    /\ presenting = {}
    /\ present_engine = "eager"
    /\ debug_config = NoDebugConfig
    /\ upload = NoUpload
    /\ setup_call = NoCall

FairSpec == FairInit /\ [][Next]_vars /\ WF_vars(GpuComplete)

(***************************************************************************)
(* The frame loop on a presentation engine that runs a queued present at   *)
(* any time after the semaphore it waits on is signaled.                   *)
(***************************************************************************)
SemaphoreInit ==
    /\ queues_alias \in BOOLEAN
    /\ num_images = MinImages
    /\ current_frame = 0
    /\ image_fences = [i \in 0 .. (num_images - 1) |-> NullFence]
    /\ frame_fences = create_synchronisation_primitives
    /\ frame_buffer_resized = FALSE
    /\ inflight = << >>
    /\ pc = "idle"
    /\ image_index = 0
    /\ present_result = "none"
    /\ iter = NewIter(0)
    /\ rebuild_owed = FALSE
    /\ panic_cause = NoPanic
    /\ cleanup_log = [by |-> "none", busy |-> 0]
    /\ fence_image = [s \in Slots |-> {}]
    /\ destroy_log = << >>
    /\ objects = [x \in ObjectFields |-> "init"]
    /\ window_size = Extent2D(WINDOW_WIDTH, WINDOW_HEIGHT)
    /\ adaptive = FALSE
    /\ chain = BuildChain(num_images,
                          choose_swap_extent(SurfaceCapabilities(window_size, adaptive),
                                             window_size))
    /\ resize_hist = [pos |-> 0, at_zero |-> FALSE, at_final |-> 0]
    /\ command_refs = record_commands(NoCommands, objects)
    /\ lifecycle = NoLifecycle
    /\ presenting = {}
    /\ present_engine = "lazy"
    /\ debug_config = NoDebugConfig
    /\ upload = NoUpload
    /\ setup_call = NoCall

SemaphoreNext == Next \/ PresentExecutes

SemaphoreSpec == SemaphoreInit /\ [][SemaphoreNext]_vars

(***************************************************************************)
(* The frame loop of a window that the user resizes, minimizes and         *)
(* restores, on an adaptive or a window-tracking surface.                  *)
(***************************************************************************)
\* The user gives the window another size between two handlers; winit
\* delivers WindowEvent::Resized, whose handler sets frame_buffer_resized.
SetWindowSize ==
    /\ pc = "idle"
    /\ \E size \in WindowSizes :
          /\ size # window_size
          /\ window_size' = size
          /\ resize_hist' = [resize_hist EXCEPT !.pos = ScenarioStep(@, size)]
    /\ frame_buffer_resized' = TRUE
    /\ UNCHANGED <<queues_alias, num_images, current_frame, image_fences,
                   frame_fences, inflight, pc, image_index, present_result,
                   iter, rebuild_owed, panic_cause, cleanup_log, fence_image,
                   destroy_log, objects, chain, adaptive,
                   upload,
                   setup_call,
                   command_refs, lifecycle, presenting, debug_config,
                   present_engine>>

ResizeInit ==
    /\ queues_alias = TRUE
    /\ num_images = MinImages
    /\ current_frame = 0
    /\ image_fences = [i \in 0 .. (num_images - 1) |-> NullFence]
    /\ frame_fences = create_synchronisation_primitives
    /\ frame_buffer_resized = FALSE
    /\ inflight = << >>
    /\ pc = "idle"
    /\ image_index = 0
    /\ present_result = "none"
    /\ iter = NewIter(0)
    /\ rebuild_owed = FALSE
    /\ panic_cause = NoPanic
    /\ cleanup_log = [by |-> "none", busy |-> 0]
    /\ fence_image = [s \in Slots |-> {}]
    /\ destroy_log = << >>
    /\ objects = [x \in ObjectFields |-> "init"]
    /\ window_size = Extent2D(WINDOW_WIDTH, WINDOW_HEIGHT)
    /\ adaptive \in BOOLEAN
    /\ chain = BuildChain(num_images,
                          choose_swap_extent(SurfaceCapabilities(window_size, adaptive),
                                             window_size))
    /\ resize_hist = [pos |-> 0, at_zero |-> FALSE, at_final |-> 0]
    /\ command_refs = record_commands(NoCommands, objects)
    /\ lifecycle = NoLifecycle
    /\ presenting = {}
    /\ present_engine = "eager"
    /\ debug_config = NoDebugConfig
    /\ upload = NoUpload
    /\ setup_call = NoCall

ResizeNext == Next \/ SetWindowSize

ResizeSpec == ResizeInit /\ [][ResizeNext]_vars

(***************************************************************************)
(* Staged uploads: create_vertex_buffer, create_index_buffer and           *)
(* create_texture_image, each stepping through its Vulkan calls while the  *)
(* GPU executes the submitted single-time command buffer on its own.       *)
(***************************************************************************)
\* Longest input slice enumerated element by element.
MaxLen == 2

\* Values of a vertex, an index or a texel byte.
Elements == {0, 1, 2}

\* const QUAD_VERTICES: [Vertex; 8], vertex k of the table written as k
QUAD_VERTICES == <<1, 2, 3, 4, 5, 6, 7, 8>>

\* const QUAD_INDICES: [u16; 12]
QUAD_INDICES == <<0, 1, 2, 2, 3, 0, 4, 5, 6, 6, 7, 4>>

UploadKinds == {"vertex", "index", "texture"}

BoundedSeqs == UNION {[1 .. n -> Elements] : n \in 0 .. MaxLen}

\* The slices handed to an entry point: short ones of every content, and for
\* the buffers the built-in table and a slice one element longer than it.
UploadInputs(kind) ==
    IF kind = "vertex"
    THEN BoundedSeqs \cup {QUAD_VERTICES} \cup {QUAD_VERTICES \o <<e>> : e \in Elements}
    ELSE IF kind = "index"
    THEN BoundedSeqs \cup {QUAD_INDICES} \cup {QUAD_INDICES \o <<e>> : e \in Elements}
    ELSE BoundedSeqs

\* begin_single_time_commands, the recorded command, end_single_time_commands
SingleTime(cmd) ==
    <<"begin_single_time_commands", cmd, "queue_submit", "queue_wait_idle",
      "free_command_buffers">>

\* The calls of each entry point, in program order.
Steps(kind) ==
    IF kind = "vertex"
    THEN <<"create_staging", "map_memory", "copy_from_nonoverlapping",
           "unmap_memory", "create_destination">>
         \o SingleTime("cmd_copy")
         \o <<"destroy_buffer", "free_memory", "return">>
    ELSE IF kind = "index"
    THEN <<"check_length", "create_staging", "map_memory",
           "copy_from_nonoverlapping", "unmap_memory", "create_destination">>
         \o SingleTime("cmd_copy")
         \o <<"destroy_buffer", "free_memory", "return">>
    ELSE <<"check_length", "create_staging", "map_memory",
           "copy_from_nonoverlapping", "unmap_memory", "create_destination">>
         \o SingleTime("cmd_pipeline_barrier")
         \o SingleTime("cmd_copy")
         \o SingleTime("cmd_pipeline_barrier")
         \o <<"destroy_buffer", "free_memory", "return">>

\* The slice the host copy reads: the built-in table in create_vertex_buffer
\* and create_index_buffer, the decoded image in create_texture_image.
CopySource(kind, input) ==
    IF kind = "vertex" THEN QUAD_VERTICES
    ELSE IF kind = "index" THEN QUAD_INDICES
    ELSE input

\* The contents a staging buffer of size elements can have after
\* copy_from_nonoverlapping(src, Len(src)): what src does not cover stays
\* uninitialized; src longer than the mapping writes past its end, which
\* either lands in the allocation's padding or faults (no contents).
HostCopy(src, size) ==
    IF Len(src) <= size
    THEN {src \o tail : tail \in [1 .. (size - Len(src)) -> Elements]}
    ELSE {SubSeq(src, 1, size)}

\* The write past the end of the mapping may fault.
HostCopyMayFault(src, size) == Len(src) > size

\* The program is at the given call.
At(call) ==
    /\ upload.status = "running"
    /\ Steps(upload.kind)[upload.step] = call

\* The upload after the call has returned.
Done(u, call) == [u EXCEPT !.step = @ + 1, !.log = Append(@, call)]

\* The upload after the call has panicked.
Failed(u, call) == [u EXCEPT !.status = "panicked", !.log = Append(@, call)]

\* end_single_time_commands skipping queue_wait_idle.
SingleTimeQueueIdleNone == TRUE

\* queue_wait_idle(queue) returns once the submitted work has completed.
SingleTimeQueueIdle == upload.gpu_busy = "none"

\* The name under which a queue call is logged: the command it carries.
OfCommand(call) ==
    IF upload.recorded = "cmd_copy" THEN call \o "(copy)" ELSE call \o "(barrier)"

\* if length == 0 { panic! } / if image_size <= 0 { panic! }
CheckLength ==
    /\ At("check_length")
    /\ upload' = IF Len(upload.input) = 0
                 THEN Failed(upload, "check_length")
                 ELSE Done(upload, "check_length")
    /\ UNCHANGED frame_vars

\* create_buffer(size, TRANSFER_SRC, HOST_VISIBLE | HOST_COHERENT)
CreateStaging ==
    /\ At("create_staging")
    /\ \/ upload' = [Done(upload, "create_staging") EXCEPT
                        !.staging = "live", !.staging_memory = "allocated"]
       \/ upload' = Failed(upload, "create_staging")
    /\ UNCHANGED frame_vars

\* map_memory(staging_buffer_memory, 0, size).expect(..)
MapMemory ==
    /\ At("map_memory")
    /\ \/ upload' = [Done(upload, "map_memory") EXCEPT !.staging_memory = "mapped"]
       \/ upload' = Failed(upload, "map_memory")
    /\ UNCHANGED frame_vars

\* data_ptr.copy_from_nonoverlapping(src.as_ptr(), src.len())
CopyFromNonoverlapping ==
    /\ At("copy_from_nonoverlapping")
    /\ LET src == CopySource(upload.kind, upload.input)
           size == Len(upload.input)
       IN  \/ \E data \in HostCopy(src, size) :
                upload' = [Done(upload, "copy_from_nonoverlapping") EXCEPT
                              !.staging_data = data]
           \/ /\ HostCopyMayFault(src, size)
              /\ upload' = Failed(upload, "copy_from_nonoverlapping")
    /\ UNCHANGED frame_vars

\* unmap_memory(staging_buffer_memory)
UnmapMemory ==
    /\ At("unmap_memory")
    /\ upload' = [Done(upload, "unmap_memory") EXCEPT !.staging_memory = "allocated"]
    /\ UNCHANGED frame_vars

\* create_buffer(size, .. | TRANSFER_DST, DEVICE_LOCAL) / create_image
CreateDestination ==
    /\ At("create_destination")
    /\ \/ upload' = [Done(upload, "create_destination") EXCEPT !.destination = TRUE]
       \/ upload' = Failed(upload, "create_destination")
    /\ UNCHANGED frame_vars

\* begin_single_time_commands(device, pool)
BeginSingleTimeCommands ==
    /\ At("begin_single_time_commands")
    /\ upload' = [Done(upload, "begin_single_time_commands") EXCEPT !.recorded = "begun"]
    /\ UNCHANGED frame_vars

\* cmd_copy_buffer(staging, destination, size) / cmd_copy_buffer_to_image
CmdCopy ==
    /\ At("cmd_copy")
    /\ upload' = [Done(upload, "cmd_copy") EXCEPT !.recorded = "cmd_copy"]
    /\ UNCHANGED frame_vars

\* transition_image_layout: cmd_pipeline_barrier
CmdPipelineBarrier ==
    /\ At("cmd_pipeline_barrier")
    /\ upload' = [Done(upload, "cmd_pipeline_barrier") EXCEPT
                     !.recorded = "cmd_pipeline_barrier"]
    /\ UNCHANGED frame_vars

\* end_single_time_commands: queue_submit(queue, .., Fence::null()).expect(..)
QueueSubmit ==
    /\ At("queue_submit")
    /\ \/ upload' = [Done(upload, OfCommand("queue_submit")) EXCEPT
                        !.gpu_busy = upload.recorded]
       \/ upload' = Failed(upload, OfCommand("queue_submit"))
    /\ UNCHANGED frame_vars

\* The GPU finishes the submitted command buffer; a copy moves the staging
\* buffer's contents into the destination, and reads nothing defined from a
\* staging buffer that is gone.
UploadGpuComplete ==
    /\ upload.gpu_busy # "none"
    /\ upload.status # "panicked"
    /\ upload' = [upload EXCEPT
          !.gpu_busy = "none",
          !.device_local =
              IF upload.gpu_busy # "cmd_copy" THEN @
              ELSE IF upload.staging = "live" /\ upload.staging_memory # "freed"
                   THEN upload.staging_data
                   ELSE << >>]
    /\ UNCHANGED frame_vars

\* end_single_time_commands: queue_wait_idle(queue).expect(..)
QueueWaitIdleAfterSubmit ==
    /\ At("queue_wait_idle")
    /\ \/ /\ SingleTimeQueueIdle
          /\ upload' = Done(upload, OfCommand("queue_wait_idle"))
       \/ upload' = Failed(upload, OfCommand("queue_wait_idle"))
    /\ UNCHANGED frame_vars

\* end_single_time_commands: free_command_buffers(command_pool, &buffers)
FreeCommandBuffers ==
    /\ At("free_command_buffers")
    /\ upload' = [Done(upload, "free_command_buffers") EXCEPT !.recorded = "none"]
    /\ UNCHANGED frame_vars

\* destroy_buffer(staging_buffer, None)
DestroyStagingBuffer ==
    /\ At("destroy_buffer")
    /\ upload' = [Done(upload, "destroy_buffer") EXCEPT
          !.staging = "destroyed",
          !.hazard = (@ \/ upload.gpu_busy = "cmd_copy")]
    /\ UNCHANGED frame_vars

\* free_memory(staging_buffer_memory, None)
FreeStagingMemory ==
    /\ At("free_memory")
    /\ upload' = [Done(upload, "free_memory") EXCEPT
          !.staging_memory = "freed",
          !.hazard = (@ \/ upload.gpu_busy = "cmd_copy")]
    /\ UNCHANGED frame_vars

\* The entry point returns the destination buffer or image.
ReturnUpload ==
    /\ At("return")
    /\ upload' = [upload EXCEPT !.status = "returned", !.log = Append(@, "return")]
    /\ UNCHANGED frame_vars

\* An entry point called with a slice.
UploadEntry(kind, input) ==
    [NoUpload EXCEPT !.kind = kind, !.input = input, !.status = "running"]

UploadInit ==
    /\ queues_alias = TRUE
    /\ num_images = MinImages
    /\ current_frame = 0
    /\ image_fences = [i \in 0 .. (num_images - 1) |-> NullFence]
    /\ frame_fences = create_synchronisation_primitives
    /\ frame_buffer_resized = FALSE
    /\ inflight = << >>
    /\ pc = "idle"
    /\ image_index = 0
    /\ present_result = "none"
    /\ iter = NewIter(0)
    /\ rebuild_owed = FALSE
    /\ panic_cause = NoPanic
    /\ cleanup_log = [by |-> "none", busy |-> 0]
    /\ fence_image = [s \in Slots |-> {}]
    /\ destroy_log = << >>
    /\ objects = [x \in ObjectFields |-> "init"]
    /\ window_size = Extent2D(WINDOW_WIDTH, WINDOW_HEIGHT)
    /\ adaptive = FALSE
    /\ chain = BuildChain(num_images,
                          choose_swap_extent(SurfaceCapabilities(window_size, adaptive),
                                             window_size))
    /\ resize_hist = [pos |-> 0, at_zero |-> FALSE, at_final |-> 0]
    /\ command_refs = record_commands(NoCommands, objects)
    /\ lifecycle = NoLifecycle
    /\ presenting = {}
    /\ present_engine = "eager"
    /\ debug_config = NoDebugConfig
    /\ \E kind \in UploadKinds :
         \E input \in UploadInputs(kind) :
            upload = UploadEntry(kind, input)
    /\ setup_call = NoCall

UploadNext ==
    \/ CheckLength
    \/ CreateStaging
    \/ MapMemory
    \/ CopyFromNonoverlapping
    \/ UnmapMemory
    \/ CreateDestination
    \/ BeginSingleTimeCommands
    \/ CmdCopy
    \/ CmdPipelineBarrier
    \/ QueueSubmit
    \/ UploadGpuComplete
    \/ QueueWaitIdleAfterSubmit
    \/ FreeCommandBuffers
    \/ DestroyStagingBuffer
    \/ FreeStagingMemory
    \/ ReturnUpload

UploadSpec == UploadInit /\ [][UploadNext]_vars


(***************************************************************************)
(* Setup functions of initialize, each applied to arguments drawn from a   *)
(* bounded set: find_memory_type.                                          *)
(***************************************************************************)
\* Number of entries of the memory-type table explored.
MaxMemoryTypes == 3

\* Number of vk::MemoryPropertyFlags bits explored.
PropertyFlagBits == 2

\* A function that returned v / that panicked.
Returned(v) == [panic |-> FALSE, value |-> v]

Panicked == [panic |-> TRUE]

\* Bit i of the bitmask x.
Bit(x, i) == (x \div (2 ^ i)) % 2

\* a & b
RECURSIVE BitAnd(_, _)
BitAnd(a, b) ==
    IF a = 0 \/ b = 0 THEN 0
    ELSE (a % 2) * (b % 2) + 2 * BitAnd(a \div 2, b \div 2)

\* A test that accepts a memory type sharing any required property.
memory_type_intersects(type_filter, required_properties, property_flags, i) ==
    /\ BitAnd(type_filter, 2 ^ i) > 0
    /\ (required_properties = 0 \/ BitAnd(property_flags, required_properties) > 0)

\* (type_filter & (1 << i)) > 0 && memory_type.property_flags.contains(required_properties)
memory_type_matches(type_filter, required_properties, property_flags, i) ==
    /\ BitAnd(type_filter, 2 ^ i) > 0
    /\ BitAnd(property_flags, required_properties) = required_properties

\* The loop of find_memory_type from index i on.
RECURSIVE find_memory_type_from(_, _, _, _)
find_memory_type_from(i, type_filter, required_properties, memory_types) ==
    IF i >= Len(memory_types) THEN Panicked
    ELSE IF memory_type_matches(type_filter, required_properties,
                                memory_types[i + 1], i)
         THEN Returned(i)
         ELSE find_memory_type_from(i + 1, type_filter, required_properties,
                                    memory_types)

\* find_memory_type(type_filter, required_properties, mem_properties)
find_memory_type(type_filter, required_properties, memory_types) ==
    find_memory_type_from(0, type_filter, required_properties, memory_types)

PropertyFlags == 0 .. (2 ^ PropertyFlagBits - 1)

\* The arguments of find_memory_type: a filter over the table's indices, the
\* required properties, and the property flags of each memory type.
FindMemoryTypeArgs ==
    [type_filter : 0 .. (2 ^ MaxMemoryTypes - 1),
     required_properties : PropertyFlags,
     memory_types : [1 .. MaxMemoryTypes -> PropertyFlags]]

\* The call with its result appended.
Apply(c, r) == [c EXCEPT !.result = Append(@, r)]

FindMemoryType ==
    /\ setup_call.fn = "find_memory_type"
    /\ setup_call.result = << >>
    /\ setup_call' = Apply(setup_call, find_memory_type(setup_call.args.type_filter,
                                            setup_call.args.required_properties,
                                            setup_call.args.memory_types))
    /\ UNCHANGED run_vars

(***************************************************************************)
(* pick_physical_device, is_device_suitable, find_queue_families.          *)
(***************************************************************************)
\* Longest list of physical devices explored.
MaxDevices == 2

\* graphics_family: None / present_family: None
NoFamily == -1

\* A queue family: its queue_count, whether its queue_flags contain GRAPHICS,
\* and get_physical_device_surface_support for it.
QueueFamily(count, graphics, present) ==
    [queue_count |-> count, graphics |-> graphics, present |-> present]

\* A discrete GPU with everything the application asks for.
CapableDevice ==
    [device_type |-> "DISCRETE_GPU",
     geometry_shader |-> 1,
     sampler_anisotropy |-> 1,
     extensions |-> {"VK_KHR_swapchain"},
     formats |-> 1,
     present_modes |-> 1,
     families |-> <<QueueFamily(1, TRUE, TRUE)>>]

\* The physical devices explored: the capable one and its variants that
\* differ from it in one respect.
PhysicalDevices ==
    {CapableDevice,
     [CapableDevice EXCEPT !.device_type = "INTEGRATED_GPU"],
     [CapableDevice EXCEPT !.geometry_shader = 0],
     [CapableDevice EXCEPT !.sampler_anisotropy = 0],
     [CapableDevice EXCEPT !.extensions = {}],
     [CapableDevice EXCEPT !.formats = 0],
     [CapableDevice EXCEPT !.present_modes = 0],
     [CapableDevice EXCEPT !.families = << >>],
     [CapableDevice EXCEPT !.families = <<QueueFamily(1, TRUE, FALSE)>>],
     [CapableDevice EXCEPT !.families = <<QueueFamily(1, FALSE, TRUE)>>],
     [CapableDevice EXCEPT !.families = <<QueueFamily(0, TRUE, TRUE)>>],
     [CapableDevice EXCEPT !.families =
         <<QueueFamily(1, TRUE, FALSE), QueueFamily(1, FALSE, TRUE)>>],
     [CapableDevice EXCEPT !.families =
         <<QueueFamily(1, FALSE, TRUE), QueueFamily(1, TRUE, FALSE)>>]}

\* QueueFamilyIndices::is_complete
is_complete(indices) ==
    indices.graphics_family # NoFamily /\ indices.present_family # NoFamily

\* The loop of find_queue_families from family i on.
RECURSIVE find_queue_families_from(_, _, _)
find_queue_families_from(i, families, indices) ==
    IF i >= Len(families) THEN indices
    ELSE LET family == families[i + 1]
             next == [graphics_family |->
                          IF family.queue_count > 0 /\ family.graphics
                          THEN i ELSE indices.graphics_family,
                      present_family |->
                          IF family.queue_count > 0 /\ family.present
                          THEN i ELSE indices.present_family]
         IN  IF is_complete(next) THEN next
             ELSE find_queue_families_from(i + 1, families, next)

\* find_queue_families(instance, device, surface_loader, surface)
find_queue_families(device) ==
    find_queue_families_from(0, device.families,
        [graphics_family |-> NoFamily, present_family |-> NoFamily])

\* check_device_extension_support(instance, device, get_device_extensions())
check_device_extension_support(device) ==
    \A required \in {"VK_KHR_swapchain"} : required \in device.extensions

\* is_device_suitable(instance, device, surface_loader, surface)
is_device_suitable(device) ==
    IF check_device_extension_support(device)
    THEN /\ device.device_type = "DISCRETE_GPU"
         /\ device.geometry_shader = 1
         /\ is_complete(find_queue_families(device))
         /\ (device.formats # 0 /\ device.present_modes # 0)
         /\ device.sampler_anisotropy = 1
    ELSE FALSE

\* Option<vk::PhysicalDevice>: the k-th enumerated device, or None
Some(k) == [some |-> TRUE, device |-> k]

None == [some |-> FALSE]

\* devices.iter().find(|device| is_device_suitable(..)) from position k on
RECURSIVE find_suitable_from(_, _)
find_suitable_from(k, devices) ==
    IF k > Len(devices) THEN None
    ELSE IF is_device_suitable(devices[k]) THEN Some(k)
         ELSE find_suitable_from(k + 1, devices)

\* pick_physical_device(instance, surface_loader, surface), given the result
\* of enumerate_physical_devices
pick_physical_device(enumerated) ==
    IF enumerated.ok
    THEN IF Len(enumerated.devices) = 0 THEN None
         ELSE find_suitable_from(1, enumerated.devices)
    ELSE None

\* The results of enumerate_physical_devices: Ok(devices) or Err(_).
PickPhysicalDeviceArgs ==
    {[ok |-> FALSE, devices |-> << >>]} \cup
    {[ok |-> TRUE, devices |-> d] :
        d \in UNION {[1 .. n -> PhysicalDevices] : n \in 0 .. MaxDevices}}

PickPhysicalDevice ==
    /\ setup_call.fn = "pick_physical_device"
    /\ setup_call.result = << >>
    /\ setup_call' = Apply(setup_call, Returned(pick_physical_device(setup_call.args)))
    /\ UNCHANGED run_vars

(***************************************************************************)
(* create_logical_device: the queue-create entries.                        *)
(***************************************************************************)
\* Largest queue family index explored.
MaxFamilyIndex == 2

\* Both family indices pushed to a Vec, duplicates kept.
queue_families_listed(graphics_family, present_family) ==
    {<<graphics_family, present_family>>}

\* unique_queue_families: a HashSet holding the two indices; its iteration
\* order is not fixed, so either order of two distinct indices can come out.
unique_queue_families(graphics_family, present_family) ==
    IF graphics_family = present_family
    THEN {<<graphics_family>>}
    ELSE {<<graphics_family, present_family>>, <<present_family, graphics_family>>}

\* vk::DeviceQueueCreateInfo::builder().queue_family_index(index).queue_priorities(&[1.0])
DeviceQueueCreateInfo(index) == [queue_family_index |-> index, queue_count |-> 1]

\* The queue_create_infos that create_logical_device can build.
queue_create_infos(queue_indices) ==
    {[k \in 1 .. Len(order) |-> DeviceQueueCreateInfo(order[k])] :
        order \in unique_queue_families(queue_indices.graphics_family,
                                        queue_indices.present_family)}

\* get_device_extensions() == vec![Swapchain::name()]
get_device_extensions == <<"VK_KHR_swapchain">>

\* const VALIDATION_LAYERS
VALIDATION_LAYERS == <<"VK_LAYER_KHRONOS_validation">>

\* device_create_info: the debug branch sets queue infos, features, layer
\* names and extension names; the other branch sets queue infos and features
\* only, and the builder's default for a list left unset is the empty list.
DeviceCreateInfo(infos, debug) ==
    IF debug
    THEN [queue_create_infos |-> infos,
          enabled_features |-> {"sampler_anisotropy"},
          enabled_layer_names |-> VALIDATION_LAYERS,
          enabled_extension_names |-> get_device_extensions]
    ELSE [queue_create_infos |-> infos,
          enabled_features |-> {"sampler_anisotropy"},
          enabled_layer_names |-> << >>,
          enabled_extension_names |-> << >>]

CreateLogicalDeviceArgs ==
    [graphics_family : 0 .. MaxFamilyIndex, present_family : 0 .. MaxFamilyIndex,
     debug : BOOLEAN]

CreateLogicalDevice ==
    /\ setup_call.fn = "create_logical_device"
    /\ setup_call.result = << >>
    /\ \E infos \in queue_create_infos(setup_call.args) :
          setup_call' = Apply(setup_call,
                              Returned(DeviceCreateInfo(infos, setup_call.args.debug)))
    /\ UNCHANGED run_vars

(***************************************************************************)
(* create_swap_chain: image count, format, present mode and extent.        *)
(***************************************************************************)
\* Largest min_image_count / max_image_count explored.
MaxImageCount == 4

\* Largest width and height explored for choose_swap_extent.
MaxDim == 2

\* The requested count without the clamp to max_image_count.
image_count_unclamped(capabilities) == capabilities.min_image_count + 1

\* let image_count = if max_image_count > 0 && max_image_count <
\* preferred_image_count { max_image_count } else { preferred_image_count }
image_count(capabilities) ==
    LET preferred_image_count == capabilities.min_image_count + 1
    IN  IF capabilities.max_image_count > 0
           /\ capabilities.max_image_count < preferred_image_count
        THEN capabilities.max_image_count
        ELSE preferred_image_count

\* The image-count limits a surface can report: max_image_count is 0 (no
\* limit) or at least min_image_count.
ImageCountArgs ==
    {c \in [min_image_count : 0 .. MaxImageCount,
            max_image_count : 0 .. MaxImageCount] :
        c.max_image_count = 0 \/ c.min_image_count <= c.max_image_count}

ImageCount ==
    /\ setup_call.fn = "image_count"
    /\ setup_call.result = << >>
    /\ setup_call' = Apply(setup_call, Returned(image_count(setup_call.args)))
    /\ UNCHANGED run_vars

SmallExtents == {Extent2D(w, h) : w \in 0 .. MaxDim, h \in 0 .. MaxDim}

\* The extents a surface can report (the sentinel, or a current extent) with
\* its bounds, min below max in each dimension, and the window's size.
ChooseSwapExtentArgs ==
    {a \in [current_extent : SmallExtents \cup {Extent2D(U32_MAX, U32_MAX)},
            min_image_extent : SmallExtents,
            max_image_extent : SmallExtents,
            size : SmallExtents] :
        /\ a.min_image_extent.width <= a.max_image_extent.width
        /\ a.min_image_extent.height <= a.max_image_extent.height}

ChooseSwapExtent ==
    /\ setup_call.fn = "choose_swap_extent"
    /\ setup_call.result = << >>
    /\ setup_call' = Apply(setup_call,
                           Returned(choose_swap_extent(setup_call.args,
                                                       setup_call.args.size)))
    /\ UNCHANGED run_vars

\* The preferred surface format and two others.
PreferredFormat == [format |-> "B8G8R8A8_SRGB", color_space |-> "SRGB_NONLINEAR"]

UnormFormat == [format |-> "B8G8R8A8_UNORM", color_space |-> "SRGB_NONLINEAR"]

RgbaFormat == [format |-> "R8G8B8A8_SRGB", color_space |-> "SRGB_NONLINEAR"]

\* choose_swap_surface_format: the first B8G8R8A8_SRGB / SRGB_NONLINEAR
\* entry from position k on, else available_formats[0]
RECURSIVE choose_swap_surface_format_from(_, _)
choose_swap_surface_format_from(k, available_formats) ==
    IF k > Len(available_formats) THEN available_formats[1]
    ELSE IF /\ available_formats[k].format = "B8G8R8A8_SRGB"
            /\ available_formats[k].color_space = "SRGB_NONLINEAR"
         THEN available_formats[k]
         ELSE choose_swap_surface_format_from(k + 1, available_formats)

choose_swap_surface_format(available_formats) ==
    choose_swap_surface_format_from(1, available_formats)

\* choose_swap_present_mode(available_modes)
choose_swap_present_mode(available_modes) ==
    IF \E k \in 1 .. Len(available_modes) : available_modes[k] = "MAILBOX"
    THEN "MAILBOX"
    ELSE "FIFO"

\* create_swap_chain on a surface with the given support details and window
\* size; the driver hands out driver_extra images more than were asked for.
create_swap_chain(support, size, driver_extra) ==
    LET format == choose_swap_surface_format(support.formats)
        present_mode == choose_swap_present_mode(support.present_modes)
        extent == choose_swap_extent(support.capabilities, size)
    IN  [format |-> format.format,
         present_mode |-> present_mode,
         extent |-> extent,
         images |-> image_count(support.capabilities) + driver_extra]

\* A rebuild that asks for one image more than the swapchain it replaces has.
rebuild_one_more_image(old, env) ==
    LET data == create_swap_chain(env.support, env.size, env.driver_extra)
        grown == [data EXCEPT !.images = old.swapchain_data.images + 1]
    IN  [swapchain_data |-> grown,
         chain |-> BuildChain(grown.images, grown.extent)]

\* recreate_swapchain: the swapchain and the dependent chain it builds when
\* it replaces old; nothing of old is handed to create_swap_chain.
rebuild(old, env) ==
    LET data == create_swap_chain(env.support, env.size, env.driver_extra)
    IN  [swapchain_data |-> data,
         chain |-> BuildChain(data.images, data.extent)]

\* A surface, window and driver that stay as they are across the rebuilds.
RecreateArgs ==
    [support :
        [capabilities :
            {[min_image_count |-> c.min_image_count,
              max_image_count |-> c.max_image_count,
              current_extent |-> e.current_extent,
              min_image_extent |-> e.min_image_extent,
              max_image_extent |-> e.max_image_extent] :
                c \in {x \in ImageCountArgs : x.min_image_count >= 1},
                e \in {SurfaceCapabilities(z, a) :
                          z \in WindowSizes \ {ZeroExtent}, a \in BOOLEAN}},
         formats : {<<PreferredFormat>>, <<UnormFormat>>,
                    <<UnormFormat, PreferredFormat>>, <<RgbaFormat, UnormFormat>>},
         present_modes : {<<"FIFO">>, <<"FIFO", "MAILBOX">>}],
     size : WindowSizes \ {ZeroExtent},
     driver_extra : 0 .. 1]

\* The swapchain that initialize built on the same surface.
InitialSwapchain(env) ==
    LET data == create_swap_chain(env.support, env.size, env.driver_extra)
    IN  [swapchain_data |-> data,
         chain |-> BuildChain(data.images, data.extent)]

\* recreate_swapchain, run up to twice in a row.
RecreateSwapchainAgain ==
    /\ setup_call.fn = "recreate_swapchain"
    /\ Len(setup_call.result) < 2
    /\ LET old == IF setup_call.result = << >>
                  THEN InitialSwapchain(setup_call.args)
                  ELSE setup_call.result[Len(setup_call.result)]
       IN  setup_call' = Apply(setup_call, rebuild(old, setup_call.args))
    /\ UNCHANGED run_vars

(***************************************************************************)
(* create_command_buffers called with any number of framebuffers and       *)
(* descriptor sets.                                                        *)
(***************************************************************************)
\* The number of command buffers to record: let num_buffers = frame_buffers.len()
num_buffers(frame_buffers) == frame_buffers

\* create_command_buffers over frame_buffers framebuffers and
\* descriptor_sets descriptor sets: the length check, then for each i in
\* range(0, num_buffers) a command buffer that renders into frame_buffers[i]
\* and binds descriptor_sets[i]; indexing a Vec out of bounds panics.
record_command_buffers(frame_buffers, descriptor_sets) ==
    IF frame_buffers # num_buffers(frame_buffers)
    THEN Panicked
    ELSE IF \E i \in 0 .. (num_buffers(frame_buffers) - 1) : i >= descriptor_sets
    THEN Panicked
    ELSE Returned([i \in 0 .. (num_buffers(frame_buffers) - 1) |->
                      [frame_buffer |-> i, descriptor_set |-> i]])

CreateCommandBuffersArgs ==
    [frame_buffers : 0 .. MaxImages, descriptor_sets : 0 .. MaxImages]

CreateCommandBuffers ==
    /\ setup_call.fn = "create_command_buffers"
    /\ setup_call.result = << >>
    /\ setup_call' = Apply(setup_call,
                           record_command_buffers(setup_call.args.frame_buffers,
                                                  setup_call.args.descriptor_sets))
    /\ UNCHANGED run_vars

(***************************************************************************)
(* instance::new and validate_extensions (src/src/instance.rs).            *)
(***************************************************************************)
\* Longest list of required instance extensions explored.
MaxExtensions == 2

\* Instance extension names that a caller can require.
InstanceExtensions == {"VK_KHR_surface", "VK_KHR_win32_surface", "VK_EXT_debug_utils"}

Ok(v) == [is_err |-> FALSE, value |-> v]

Err(e) == [is_err |-> TRUE, error |-> e]

\* validate_extensions(entry, extensions): Ok(()) for an empty list; the
\* required names absent from enumerate_instance_extension_properties(), in
\* the order required, when that call returned Ok; `if let Ok(..)` skips the
\* loop when it returned Err, which leaves missing empty.
validate_extensions(extensions, enumerated) ==
    IF Len(extensions) = 0 THEN Ok(<< >>)
    ELSE LET missing == IF enumerated.is_err THEN << >>
                        ELSE SelectSeq(extensions, LAMBDA e : e \notin enumerated.value)
         IN  IF Len(missing) > 0 THEN Err(missing) ELSE Ok(<< >>)

\* entry.create_instance(&builder, None) with the given extensions enabled,
\* on a loader that supports the extensions in available: it refuses an
\* unsupported extension, and can fail for another reason (driver_ok).
create_instance(extensions, available, driver_ok) ==
    IF \E k \in 1 .. Len(extensions) : extensions[k] \notin available
    THEN Err(<<"ERROR_EXTENSION_NOT_PRESENT">>)
    ELSE IF driver_ok THEN Ok("instance")
    ELSE Err(<<"ERROR_INITIALIZATION_FAILED">>)

\* instance::new: the returned Result and the create_instance calls made.
\* format!("Extensions: {} are unavailable", missing.join(", "))
instance_new(extensions, available, enumerate_ok, driver_ok) ==
    LET enumerated == IF enumerate_ok THEN Ok(available)
                      ELSE Err(<<"ERROR_OUT_OF_HOST_MEMORY">>)
        validation_result == validate_extensions(extensions, enumerated)
    IN  IF validation_result.is_err
        THEN [result |-> Err(<<"Extensions: ", validation_result.error,
                               " are unavailable">>),
              create_instance_calls |-> 0]
        ELSE [result |-> create_instance(extensions, available, driver_ok),
              create_instance_calls |-> 1]

InstanceNewArgs ==
    [extensions : UNION {[1 .. n -> InstanceExtensions] : n \in 0 .. MaxExtensions},
     available : SUBSET InstanceExtensions,
     enumerate_ok : BOOLEAN,
     driver_ok : BOOLEAN]

InstanceNew ==
    /\ setup_call.fn = "instance::new"
    /\ setup_call.result = << >>
    /\ setup_call' = Apply(setup_call,
                           instance_new(setup_call.args.extensions,
                                        setup_call.args.available,
                                        setup_call.args.enumerate_ok,
                                        setup_call.args.driver_ok))
    /\ UNCHANGED run_vars

\* initialize is about to call one of its setup functions.
SetupInit ==
    /\ queues_alias = TRUE
    /\ num_images = MinImages
    /\ current_frame = 0
    /\ image_fences = [i \in 0 .. (num_images - 1) |-> NullFence]
    /\ frame_fences = create_synchronisation_primitives
    /\ frame_buffer_resized = FALSE
    /\ inflight = << >>
    /\ pc = "idle"
    /\ image_index = 0
    /\ present_result = "none"
    /\ iter = NewIter(0)
    /\ rebuild_owed = FALSE
    /\ panic_cause = NoPanic
    /\ cleanup_log = [by |-> "none", busy |-> 0]
    /\ fence_image = [s \in Slots |-> {}]
    /\ destroy_log = << >>
    /\ objects = [x \in ObjectFields |-> "init"]
    /\ window_size = Extent2D(WINDOW_WIDTH, WINDOW_HEIGHT)
    /\ adaptive = FALSE
    /\ chain = BuildChain(num_images,
                          choose_swap_extent(SurfaceCapabilities(window_size, adaptive),
                                             window_size))
    /\ resize_hist = [pos |-> 0, at_zero |-> FALSE, at_final |-> 0]
    /\ command_refs = record_commands(NoCommands, objects)
    /\ lifecycle = NoLifecycle
    /\ presenting = {}
    /\ present_engine = "eager"
    /\ debug_config = NoDebugConfig
    /\ upload = NoUpload
    /\ \/ \E a \in FindMemoryTypeArgs :
            setup_call = [fn |-> "find_memory_type", args |-> a, result |-> << >>]
       \/ \E a \in PickPhysicalDeviceArgs :
            setup_call = [fn |-> "pick_physical_device", args |-> a, result |-> << >>]
       \/ \E a \in CreateLogicalDeviceArgs :
            setup_call = [fn |-> "create_logical_device", args |-> a, result |-> << >>]
       \/ \E a \in ImageCountArgs :
            setup_call = [fn |-> "image_count", args |-> a, result |-> << >>]
       \/ \E a \in ChooseSwapExtentArgs :
            setup_call = [fn |-> "choose_swap_extent", args |-> a, result |-> << >>]
       \/ \E a \in RecreateArgs :
            setup_call = [fn |-> "recreate_swapchain", args |-> a, result |-> << >>]
       \/ \E a \in CreateCommandBuffersArgs :
            setup_call = [fn |-> "create_command_buffers", args |-> a, result |-> << >>]
       \/ \E a \in InstanceNewArgs :
            setup_call = [fn |-> "instance::new", args |-> a, result |-> << >>]

SetupNext ==
    \/ FindMemoryType
    \/ PickPhysicalDevice
    \/ CreateLogicalDevice
    \/ ImageCount
    \/ ChooseSwapExtent
    \/ RecreateSwapchainAgain
    \/ CreateCommandBuffers
    \/ InstanceNew

SetupSpec == SetupInit /\ [][SetupNext]_vars

(***************************************************************************)
(* debug::Configuration (src/src/debug.rs): create_messenger, its Drop,    *)
(* and the Drop of the application that owns it.                           *)
(***************************************************************************)
\* Largest number of create_messenger calls explored.
MaxCalls == 3

\* create_messenger storing whatever the driver returns, configured or not.
create_messenger_unguarded(config, driver_ok) ==
    IF ~driver_ok
    THEN [config EXCEPT !.calls = Append(@, Err("create_debug_utils_messenger"))]
    ELSE [config EXCEPT !.created = @ + 1,
                        !.loader = 1,
                        !.messenger = config.created + 1,
                        !.calls = Append(@, Ok(config.created + 1))]

\* Configuration::create_messenger: Err when _loader is Some; otherwise the
\* driver creates a messenger or fails, and only a success stores the loader
\* and the messenger.  Messengers are numbered in creation order, 0 is None.
create_messenger(config, driver_ok) ==
    IF config.loader # 0
    THEN [config EXCEPT !.calls =
              Append(@, Err("Messenger already configured for a vulkan instance"))]
    ELSE IF ~driver_ok
    THEN [config EXCEPT !.calls = Append(@, Err("create_debug_utils_messenger"))]
    ELSE [config EXCEPT !.created = @ + 1,
                        !.loader = 1,
                        !.messenger = config.created + 1,
                        !.calls = Append(@, Ok(config.created + 1))]

\* impl Drop for Configuration: destroy_debug_utils_messenger when both the
\* loader and the messenger are Some.
configuration_drop(config) ==
    IF config.loader # 0 /\ config.messenger # 0
    THEN [config EXCEPT !.destroyed =
              Append(@, [messenger |-> config.messenger, instance |-> config.instance])]
    ELSE config

\* A caller that owns a Configuration calls create_messenger.
CreateMessenger ==
    /\ debug_config.present
    /\ debug_config.drop_pos = 0
    /\ Len(debug_config.calls) < MaxCalls
    /\ \E driver_ok \in BOOLEAN :
          debug_config' = create_messenger(debug_config, driver_ok)
    /\ UNCHANGED app_vars

\* The next destroy call of the application's Drop: `self.debug_config =
\* None` drops the Configuration if there is one, destroy_instance ends the
\* instance.
DropStep ==
    /\ debug_config.drop_pos < Len(DropCalls)
    /\ LET x == DropCalls[debug_config.drop_pos + 1]
           c == [debug_config EXCEPT !.drop_pos = @ + 1]
       IN  debug_config' =
               IF x = "debug_config" /\ c.present
               THEN [configuration_drop(c) EXCEPT !.present = FALSE]
               ELSE IF x = "instance"
               THEN [c EXCEPT !.instance = "destroyed"]
               ELSE c
    /\ UNCHANGED app_vars

\* initialize was given a Configuration fresh from Configuration::new, or None.
DebugInit ==
    /\ queues_alias = TRUE
    /\ num_images = MinImages
    /\ current_frame = 0
    /\ image_fences = [i \in 0 .. (num_images - 1) |-> NullFence]
    /\ frame_fences = create_synchronisation_primitives
    /\ frame_buffer_resized = FALSE
    /\ inflight = << >>
    /\ pc = "idle"
    /\ image_index = 0
    /\ present_result = "none"
    /\ iter = NewIter(0)
    /\ rebuild_owed = FALSE
    /\ panic_cause = NoPanic
    /\ cleanup_log = [by |-> "none", busy |-> 0]
    /\ fence_image = [s \in Slots |-> {}]
    /\ destroy_log = << >>
    /\ objects = [x \in ObjectFields |-> "init"]
    /\ window_size = Extent2D(WINDOW_WIDTH, WINDOW_HEIGHT)
    /\ adaptive = FALSE
    /\ chain = BuildChain(num_images,
                          choose_swap_extent(SurfaceCapabilities(window_size, adaptive),
                                             window_size))
    /\ resize_hist = [pos |-> 0, at_zero |-> FALSE, at_final |-> 0]
    /\ command_refs = record_commands(NoCommands, objects)
    /\ lifecycle = NoLifecycle
    /\ presenting = {}
    /\ present_engine = "eager"
    /\ \E given \in BOOLEAN : debug_config = [NoDebugConfig EXCEPT !.present = given]
    /\ upload = NoUpload
    /\ setup_call = NoCall

DebugNext ==
    \/ CreateMessenger
    \/ DropStep

DebugSpec == DebugInit /\ [][DebugNext]_vars

TypeOK ==
    /\ queues_alias \in BOOLEAN
    /\ num_images \in ImageCounts
    /\ current_frame \in Slots
    /\ \A i \in DOMAIN image_fences : image_fences[i] \in Slots \cup {NullFence}
    /\ frame_fences \in [Slots -> BOOLEAN]
    /\ frame_buffer_resized \in BOOLEAN
    /\ Len(inflight) <= MaxPending
    /\ objects \in [ObjectFields -> {"init", "rebuilt", "destroyed"}]
    /\ window_size \in WindowSizes
    /\ adaptive \in BOOLEAN
    /\ chain.image_views \in ImageCounts
    /\ resize_hist.pos \in 0 .. 3
    /\ resize_hist.at_zero \in BOOLEAN
    /\ resize_hist.at_final \in 0 .. 2
    /\ upload.kind \in UploadKinds \cup {"none"}
    /\ upload.status \in {"none", "running", "returned", "panicked"}
    /\ upload.staging \in {"none", "live", "destroyed"}
    /\ upload.staging_memory \in {"none", "allocated", "mapped", "freed"}
    /\ upload.gpu_busy \in {"none", "cmd_copy", "cmd_pipeline_barrier"}

(***************************************************************************)
(* Properties of the frame loop.                                           *)
(***************************************************************************)

\* C1: draw_frame never submits a command buffer for swapchain image i while
\* an earlier submission for image i is still in flight, and every submit
\* for an image that a fence in image_fences still claimed came after the
\* wait on that fence.
C1_NoOverlappingSubmitPerImage ==
    /\ \A j, k \in 1 .. Len(inflight) :
           j # k => inflight[j].image # inflight[k].image
    /\ (iter.submitted /\ iter.claimed) => iter.waited

\* A frame was submitted for an image that an earlier frame had claimed,
\* while the other slot's frame is still in flight.
C1_Witness ==
    /\ iter.submitted
    /\ iter.claimed
    /\ Len(inflight) = MAX_FRAMES_IN_FLIGHT

\* C2: when the acquired image is still claimed by a fence in image_fences,
\* the wait on that fence comes before anything of that image is touched,
\* the CPU write to its uniform buffer included.
C2_ImageFenceWaitBeforeUniformWrite == ~iter.write_before_wait

\* C3: the CPU writes uniform buffer i only in an iteration that acquired
\* image i, writes no other uniform buffer in that iteration, and never
\* writes it while a submitted command buffer reading it is in flight.
C3_UniformBufferExclusive ==
    /\ iter.writes \subseteq {image_index}
    /\ ~iter.race

\* C4: at most MAX_FRAMES_IN_FLIGHT frame submissions are submitted and not
\* yet completed, at every point of every execution.
C4_AtMostKFramesInFlight == Len(inflight) <= MAX_FRAMES_IN_FLIGHT

\* Both frame slots have a submission in flight.
C4_Witness ==
    /\ Len(inflight) = MAX_FRAMES_IN_FLIGHT
    /\ \A s \in Slots : ~frame_fences[s]

\* C5: an iteration whose acquire reported out-of-date rebuilds the
\* swapchain and returns without drawing: it resets no fence, writes no
\* uniform buffer, submits and presents nothing and leaves current_frame
\* alone; when it has returned, the slot's fence is still signaled, so the
\* next iteration starts on the same slot and its slot wait does not block.
C5_OutOfDateSkipsTheFrame ==
    iter.recreated =>
        /\ ~iter.reset
        /\ iter.writes = {}
        /\ ~iter.submitted
        /\ ~iter.presented
        /\ current_frame = iter.frame0
        /\ pc \in {"recreate_swapchain", "idle", "exiting", "dropped", "panicked"}
        /\ (pc = "idle" => frame_fences[current_frame])

\* An out-of-date iteration has rebuilt the swapchain and returned, on the
\* second frame slot and after earlier frames were drawn.
C5_Witness ==
    /\ iter.recreated
    /\ pc = "idle"
    /\ cleanup_log.by = "recreate"
    /\ current_frame = 1
    /\ \E i \in DOMAIN image_fences : image_fences[i] # NullFence

\* C6: every staleness signal (present result suboptimal or out-of-date, the
\* resize flag set at present time, acquire out-of-date) leads to a rebuild
\* before the next frame is drawn: no frame is submitted while a rebuild
\* owed by an earlier iteration has not run.
C6_StalenessRebuiltBeforeNextDraw == (pc = "present") => ~rebuild_owed

\* C7: an out-of-date or suboptimal result of acquire_next_image or of
\* queue_present never panics the process.
C7_StalenessNeverPanics ==
    (pc = "panicked") => panic_cause.result \notin {"out_of_date", "suboptimal"}

\* C8: a failed queue_submit, and a queue_present that failed for another
\* reason than staleness, always panic, for every value of the resize flag
\* and every frame slot; draw_frame never carries on after one.
C8_DeviceLostAlwaysFatal ==
    /\ (iter.reset /\ ~iter.submitted /\ pc # "submit") => pc = "panicked"
    /\ (present_result = "device_lost" /\ pc \notin {"queue_wait_idle", "match_present"})
           => pc = "panicked"

\* C9: recreate_swapchain destroys the swapchain-dependent objects only
\* after the device-idle wait has returned: at its cleanup_swapchain no
\* submitted command buffer is in flight.
C9_RecreateDestroysOnlyWhenIdle ==
    (cleanup_log.by = "recreate") => cleanup_log.busy = 0

\* recreate_swapchain has torn the swapchain down after frames were drawn on
\* a device whose present queue is not the graphics queue.
C9_Witness ==
    /\ cleanup_log.by = "recreate"
    /\ ~queues_alias
    /\ \A s \in Slots : \E i \in DOMAIN image_fences : image_fences[i] = s

\* C10: Drop destroys resources only behind a device-idle barrier: no
\* submitted work is unfinished when the shutdown destroys the resources.
C10_DropDestroysOnlyWhenIdle ==
    (cleanup_log.by = "drop") => cleanup_log.busy = 0

(***************************************************************************)
(* Destruction order.                                                      *)
(***************************************************************************)
\* a is destroyed before b in the sequence of destroy calls log.
DestroyedBefore(log, a, b) ==
    \E j \in 1 .. Len(log) : log[j] = b /\ \E i \in 1 .. (j - 1) : log[i] = a

\* x is destroyed exactly once in log.
DestroyedOnce(log, x) ==
    Cardinality({k \in 1 .. Len(log) : log[k] = x}) = 1

\* <<child, parent>>: the create call of child takes parent as its input
\* (create_frame_buffers, create_depth_resources / create_image,
\* create_buffer, create_graphics_pipeline, create_swapchain_image_views).
SubtreeDependsOn ==
    { <<"swap_chain_frame_buffers", "swapchain_image_views">>,
      <<"swap_chain_frame_buffers", "depth_image_view">>,
      <<"swap_chain_frame_buffers", "render_pass">>,
      <<"depth_image_view", "depth_image">>,
      <<"depth_image", "depth_image_memory">>,
      <<"uniform_buffers", "uniform_buffers_memory">>,
      <<"graphics_pipeline", "pipeline_layout">>,
      <<"graphics_pipeline", "render_pass">>,
      <<"swapchain_image_views", "swapchain">> }

DepthResources == {"depth_image_view", "depth_image", "depth_image_memory"}

C12_DeviceDestroyedLast ==
    (pc = "dropped") =>
        /\ \A x \in SwapchainSubtree \cup DeviceOwnedOutsideSubtree :
              DestroyedBefore(destroy_log, x, "logical_device")
        /\ DestroyedBefore(destroy_log, "logical_device", "instance")
        /\ DestroyedBefore(destroy_log, "surface", "instance")
        /\ DestroyedOnce(destroy_log, "logical_device")
        /\ DestroyedOnce(destroy_log, "instance")

\* The application was dropped after a swapchain rebuild.
C12_Witness ==
    /\ pc = "dropped"
    /\ cleanup_log.by = "drop"
    /\ iter.recreated

(***************************************************************************)
(* Swapchain recreation.                                                   *)
(***************************************************************************)

\* C13: after initialize and after every completed recreate_swapchain the
\* numbers of image views, framebuffers, uniform buffers, descriptor sets
\* and command buffers equal the image count of the current swapchain, and
\* pipeline, depth resources, framebuffers and command buffers are built
\* from the current swapchain extent.
C13_ChainMatchesSwapchain ==
    /\ chain.image_views = num_images
    /\ chain.framebuffers = num_images
    /\ chain.uniform_buffers = num_images
    /\ chain.descriptor_sets = num_images
    /\ chain.command_buffers = num_images
    /\ chain.pipeline_extent = chain.extent
    /\ chain.depth_extent = chain.extent
    /\ chain.framebuffer_extent = chain.extent
    /\ chain.command_extent = chain.extent

\* A recreate_swapchain completed on the enlarged window with an image count
\* that differs from the initial one and from the number of frame slots.
C13_Witness ==
    /\ objects["swapchain"] = "rebuilt"
    /\ pc = "idle"
    /\ chain.extent = LargeExtent
    /\ num_images # Cardinality(DOMAIN image_fences)
    /\ num_images # MAX_FRAMES_IN_FLIGHT

\* The objects and fields that outlive a swapchain.
PersistentFields ==
    DeviceOwnedOutsideSubtree \cup
    {"instance", "surface", "logical_device", "graphics_queue", "present_queue"}

\* C14: recreate_swapchain leaves the logical device, the queues, the command
\* pool, the vertex and index buffers, the texture image, view and sampler,
\* the frame-slot semaphores and fences and the current frame-slot index as
\* they were.
C14_RecreateKeepsPersistentState ==
    [][recreate_swapchain =>
          /\ \A x \in PersistentFields : objects'[x] = objects[x]
          /\ current_frame' = current_frame
          /\ frame_fences' = frame_fences]_vars

\* A swapchain was rebuilt while frame slot 1 was the current one, and the
\* command pool and the fences are still those of initialize.
C14_Witness ==
    /\ objects["swapchain"] = "rebuilt"
    /\ current_frame = 1
    /\ objects["command_pool"] = "init"
    /\ objects["frame_fences"] = "init"
    /\ pc = AfterRecreate

\* C15: no swapchain is ever created with zero width or height; while the
\* extent is zero recreate_swapchain is not run.
C15_NoZeroExtentSwapchain ==
    /\ chain.extent.width # 0
    /\ chain.extent.height # 0
    /\ ~resize_hist.at_zero

\* C16: over the resizes (800,600) -> (0,0) -> (1024,768), delivered between
\* frames, nothing is rebuilt while the window is (0,0), at (1024,768) the
\* swapchain is rebuilt once, and that rebuild records one command buffer
\* per swapchain image.
C16_ResizeScenarioRebuildsOnce ==
    /\ resize_hist.pos \in {1, 2} => ~resize_hist.at_zero
    /\ resize_hist.pos = 2 => resize_hist.at_final <= 1
    /\ (resize_hist.pos = 2 /\ resize_hist.at_final = 1) =>
           chain.command_buffers = num_images

\* C17: with three swapchain images and two frame slots, between frames the
\* image-in-flight table holds no stale fence reference: when
\* image_fences[i] is slot s's fence, the latest reset-and-submit of that
\* fence was for image i.
C17_NoStaleFenceReference ==
    (pc = "idle" /\ num_images = 3 /\ DOMAIN image_fences = 0 .. 2) =>
        \A i \in DOMAIN image_fences :
            image_fences[i] # NullFence => fence_image[image_fences[i]] = {i}

(***************************************************************************)
(* Properties of the staged uploads.                                       *)
(***************************************************************************)

\* C18: when create_vertex_buffer or create_index_buffer returns for a
\* non-empty input slice, of any length, the device-local buffer holds
\* exactly the elements of that slice.
C18_UploadRoundTrip ==
    (/\ upload.status = "returned"
     /\ upload.kind \in {"vertex", "index"}
     /\ Len(upload.input) > 0)
        => upload.device_local = upload.input

\* C19: an entry point called with a zero-length input creates no staging
\* buffer and submits no copy.
C19_ZeroLengthRejected ==
    (upload.status # "none" /\ Len(upload.input) = 0) =>
        /\ "create_staging" \notin Range(upload.log)
        /\ "queue_submit(copy)" \notin Range(upload.log)
        /\ upload.staging = "none"

\* The order of the calls of a staged upload.
StagedUploadOrder ==
    <<"create_staging", "map_memory", "copy_from_nonoverlapping",
      "unmap_memory", "queue_submit(copy)", "queue_wait_idle(copy)",
      "destroy_buffer", "free_memory", "return">>

\* C20: a staged upload creates the staging buffer, maps it, copies, unmaps,
\* submits the copy, waits for the queue to be idle, destroys the staging
\* buffer and frees its memory, in this order; the staging buffer is never
\* destroyed while the copy is in flight, and it is destroyed and its memory
\* freed when the function returns.
C20_StagedUploadOrder ==
    /\ \A k \in 1 .. (Len(StagedUploadOrder) - 1) :
          StagedUploadOrder[k + 1] \in Range(upload.log) =>
              /\ DestroyedBefore(upload.log, StagedUploadOrder[k], StagedUploadOrder[k + 1])
              /\ DestroyedOnce(upload.log, StagedUploadOrder[k])
    /\ ~upload.hazard
    /\ upload.status = "returned" =>
          /\ upload.staging = "destroyed"
          /\ upload.staging_memory = "freed"
          /\ upload.gpu_busy = "none"

\* create_texture_image returned with the texels in the image, after three
\* single-time command buffers.
C20_Witness ==
    /\ upload.status = "returned"
    /\ upload.kind = "texture"
    /\ Len(upload.input) = MaxLen
    /\ upload.device_local = upload.input
    /\ upload.staging_memory = "freed"

(***************************************************************************)
(* Properties of one draw_frame iteration.                                 *)
(***************************************************************************)

\* C21: a draw_frame iteration that does not rebuild the swapchain blocks
\* the CPU on the GPU only in the slot-fence wait and in the image-fence
\* wait: it performs no queue-idle wait, no device-idle wait and no
\* single-time command submission.
C21_OnlyFenceWaitsBlock ==
    ~iter.recreated =>
        iter.blocking \subseteq {"wait_for_fences(slot)", "wait_for_fences(image)"}

\* C28: each submit of draw_frame carries the command buffer of the acquired
\* image, waits on the current slot's image-available semaphore at the
\* color-attachment-output stage, and signals the current slot's
\* render-complete semaphore and fence; a frame fence is reset only in that
\* step, only the current slot's, after the slot-fence wait and the
\* image-in-flight check.
C28_SubmitUsesSlotObjects ==
    [][/\ \A s \in Slots :
             (frame_fences[s] /\ ~frame_fences'[s]) =>
                 /\ pc = "submit"
                 /\ s = current_frame
                 /\ "wait_for_fences(slot)" \in iter.blocking
                 /\ iter.checked
                 /\ iter'.reset
       /\ (iter'.submitted /\ ~iter.submitted) =>
             /\ pc = "submit"
             /\ iter'.submit.command_buffer = image_index
             /\ iter'.submit.wait_semaphore = <<"image_available", current_frame>>
             /\ iter'.submit.wait_stage = "COLOR_ATTACHMENT_OUTPUT"
             /\ iter'.submit.signal_semaphore = <<"render_complete", current_frame>>
             /\ iter'.submit.fence = current_frame
             /\ ~frame_fences'[current_frame]
             /\ inflight'[Len(inflight')].slot = current_frame
             /\ inflight'[Len(inflight')].image = image_index]_vars

\* Slot 1 submitted the command buffer of image 2 after waiting on the fence
\* that still claimed the image.
C28_Witness ==
    /\ iter.submitted
    /\ iter.waited
    /\ iter.submit.command_buffer = 2
    /\ iter.submit.fence = 1
    /\ pc = "present"

\* C29: an iteration that presents has acquired, then submitted, then
\* presented one and the same image in one and the same frame slot; the
\* present waits on the render-complete semaphore that this iteration's
\* submit signals.
C29_AcquireSubmitPresentOrder ==
    iter.presented =>
        /\ iter.acquire.made
        /\ iter.submitted
        /\ iter.submit.made
        /\ iter.present.made
        /\ iter.present.image_index = iter.acquire.image_index
        /\ iter.present.image_index = iter.submit.command_buffer
        /\ iter.present.wait_semaphore = iter.submit.signal_semaphore
        /\ iter.present.wait_semaphore = <<"render_complete", iter.frame0>>
        /\ iter.acquire.semaphore = iter.submit.wait_semaphore
        /\ iter.acquire.semaphore = <<"image_available", iter.frame0>>
        /\ iter.submit.fence = iter.frame0

\* Image 2 was presented from frame slot 1.
C29_Witness ==
    /\ iter.presented
    /\ iter.present.image_index = 2
    /\ iter.frame0 = 1
    /\ pc = "queue_wait_idle"

\* C30: current_frame is always one of the K frame slots; a draw_frame call
\* that gets past its present advances it by one modulo K whatever image was
\* acquired, nothing else moves it, and the advance leaves image_fences, the
\* fences and the pending submissions as they are.
C30_FrameSlotRoundRobin ==
    /\ [](current_frame \in Slots)
    /\ [][/\ (pc = "match_present" /\ pc' = "idle") =>
                /\ current_frame' =
                      IF current_frame = MAX_FRAMES_IN_FLIGHT - 1
                      THEN 0 ELSE current_frame + 1
                /\ UNCHANGED <<image_fences, frame_fences, fence_image, inflight>>
          /\ current_frame' # current_frame =>
                (pc = "match_present" /\ pc' = "idle")]_vars

\* A frame drawn into image 2 from the last slot has wrapped the slot index
\* round to 0.
C30_Witness ==
    /\ pc = "idle"
    /\ iter.presented
    /\ iter.frame0 = MAX_FRAMES_IN_FLIGHT - 1
    /\ current_frame = 0
    /\ image_index = 2

(***************************************************************************)
(* Properties of the setup functions.                                      *)
(***************************************************************************)

\* The indices of the table whose filter bit is set and whose property flags
\* include every required property.
QualifyingMemoryTypes(a) ==
    {i \in 0 .. (Len(a.memory_types) - 1) :
        /\ Bit(a.type_filter, i) = 1
        /\ \A b \in 0 .. (PropertyFlagBits - 1) :
              Bit(a.required_properties, b) = 1 => Bit(a.memory_types[i + 1], b) = 1}

\* C22: find_memory_type returns the lowest index whose bit is set in the
\* type filter and whose memory type has all the required properties, and
\* it panics exactly when there is no such index.
C22_FindMemoryTypeLowestMatch ==
    (setup_call.fn = "find_memory_type" /\ setup_call.result # << >>) =>
        LET r == setup_call.result[1]
            q == QualifyingMemoryTypes(setup_call.args)
        IN  /\ r.panic <=> q = {}
            /\ ~r.panic =>
                  /\ r.value \in q
                  /\ \A i \in q : r.value <= i

\* find_memory_type skipped a memory type that lacks a required property and
\* one that the filter excludes, and returned the last index of the table.
C22_Witness ==
    /\ setup_call.fn = "find_memory_type"
    /\ setup_call.result # << >>
    /\ ~setup_call.result[1].panic
    /\ setup_call.result[1].value = MaxMemoryTypes - 1
    /\ Bit(setup_call.args.type_filter, 0) = 1
    /\ Bit(setup_call.args.type_filter, 1) = 0
    /\ setup_call.args.required_properties = 2 ^ PropertyFlagBits - 1

\* The requirements on a physical device: a queue family with graphics,
\* a queue family that can present to the surface, the swapchain extension,
\* anisotropic sampling and geometry shaders.
MeetsRequirements(device) ==
    /\ \E k \in 1 .. Len(device.families) :
          device.families[k].queue_count > 0 /\ device.families[k].graphics
    /\ \E k \in 1 .. Len(device.families) :
          device.families[k].queue_count > 0 /\ device.families[k].present
    /\ "VK_KHR_swapchain" \in device.extensions
    /\ device.sampler_anisotropy = 1
    /\ device.geometry_shader = 1

\* C23: pick_physical_device returns the first enumerated device that meets
\* the requirements, and None only when no enumerated device meets them.
C23_PicksFirstSuitableDevice ==
    (setup_call.fn = "pick_physical_device" /\ setup_call.result # << >>) =>
        LET r == setup_call.result[1].value
            devices == setup_call.args.devices
            meeting == {k \in 1 .. Len(devices) : MeetsRequirements(devices[k])}
        IN  /\ ~r.some <=> meeting = {}
            /\ r.some =>
                  /\ r.device \in meeting
                  /\ \A k \in meeting : r.device <= k

\* C24: create_logical_device asks for every queue family at most once: one
\* queue-create entry when the graphics and the present family are the
\* same, two entries with different indices when they are not.
C24_QueueFamiliesRequestedOnce ==
    (setup_call.fn = "create_logical_device" /\ setup_call.result # << >>) =>
        LET infos == setup_call.result[1].value.queue_create_infos
            g == setup_call.args.graphics_family
            p == setup_call.args.present_family
        IN  /\ \A j, k \in 1 .. Len(infos) :
                  j # k => infos[j].queue_family_index # infos[k].queue_family_index
            /\ {infos[k].queue_family_index : k \in 1 .. Len(infos)} = {g, p}
            /\ g = p => Len(infos) = 1
            /\ g # p => Len(infos) = 2

\* Two entries were built for different families, the present family first.
C24_Witness ==
    /\ setup_call.fn = "create_logical_device"
    /\ setup_call.result # << >>
    /\ Len(setup_call.result[1].value.queue_create_infos) = 2
    /\ setup_call.result[1].value.queue_create_infos[1].queue_family_index =
           setup_call.args.present_family
    /\ setup_call.args.graphics_family < setup_call.args.present_family

C26_ExtentCurrentOrClamped ==
    (setup_call.fn = "choose_swap_extent" /\ setup_call.result # << >>) =>
        LET r == setup_call.result[1].value
            a == setup_call.args
        IN  IF a.current_extent = Extent2D(U32_MAX, U32_MAX)
            THEN /\ a.min_image_extent.width <= r.width
                 /\ r.width <= a.max_image_extent.width
                 /\ a.min_image_extent.height <= r.height
                 /\ r.height <= a.max_image_extent.height
                 /\ r.width = IF a.size.width < a.min_image_extent.width
                              THEN a.min_image_extent.width
                              ELSE IF a.size.width > a.max_image_extent.width
                                   THEN a.max_image_extent.width
                                   ELSE a.size.width
                 /\ r.height = IF a.size.height < a.min_image_extent.height
                               THEN a.min_image_extent.height
                               ELSE IF a.size.height > a.max_image_extent.height
                                    THEN a.max_image_extent.height
                                    ELSE a.size.height
            ELSE r = a.current_extent

\* On an adaptive surface a window wider than the maximum and lower than the
\* minimum got the maximum width and the minimum height.
C26_Witness ==
    /\ setup_call.fn = "choose_swap_extent"
    /\ setup_call.result # << >>
    /\ setup_call.args.current_extent = Extent2D(U32_MAX, U32_MAX)
    /\ setup_call.args.size.width > setup_call.args.max_image_extent.width
    /\ setup_call.args.size.height < setup_call.args.min_image_extent.height
    /\ setup_call.result[1].value =
           Extent2D(setup_call.args.max_image_extent.width,
                    setup_call.args.min_image_extent.height)

C32_DepthImageOneFrameAtATime ==
    \A j, k \in 1 .. Len(inflight) :
        j # k =>
            <<"depth_image_view", 0>> \notin
                (framebuffer_attachments(inflight[j].image)
                     \cap framebuffer_attachments(inflight[k].image))

\* C37: image_fences has exactly one entry per image of the current
\* swapchain, also after a recreate_swapchain that yields another image
\* count, so every image index that acquire returns indexes image_fences.
C37_ImageFencesMatchSwapchain ==
    /\ DOMAIN image_fences = 0 .. (num_images - 1)
    /\ iter.acquire.made => iter.acquire.image_index \in DOMAIN image_fences
    /\ panic_cause.call # "image_fences_index"

(***************************************************************************)
(* Properties of instance and device creation.                             *)
(***************************************************************************)

\* C39: the logical device is created with the required device extension
\* (the swapchain extension) enabled, whether the debug flag is set or not.
C39_SwapchainExtensionEnabled ==
    (setup_call.fn = "create_logical_device" /\ setup_call.result # << >>) =>
        \A k \in 1 .. Len(get_device_extensions) :
            get_device_extensions[k] \in
                Range(setup_call.result[1].value.enabled_extension_names)

\* C33: create_command_buffers panics whenever the number of framebuffers
\* differs from the number of command buffers to record or from the number
\* of descriptor sets supplied; it never records with mismatched counts.
C33_MismatchedCountsPanic ==
    (setup_call.fn = "create_command_buffers" /\ setup_call.result # << >>) =>
        LET frame_buffers == setup_call.args.frame_buffers
            descriptor_sets == setup_call.args.descriptor_sets
        IN  (frame_buffers # num_buffers(frame_buffers)
                 \/ frame_buffers # descriptor_sets)
                => setup_call.result[1].panic

\* C34: whenever a required instance extension is not available,
\* instance::new returns an Err that names exactly the unavailable required
\* extensions and creates no instance; when all are available it goes on to
\* create the instance; create_instance is never called a second time.
C34_MissingExtensionsReported ==
    (setup_call.fn = "instance::new" /\ setup_call.result # << >>) =>
        LET required == Range(setup_call.args.extensions)
            unavailable == required \ setup_call.args.available
            out == setup_call.result[1]
        IN  /\ unavailable # {} =>
                  /\ out.result.is_err
                  /\ Len(out.result.error) = 3
                  /\ Range(out.result.error[2]) = unavailable
                  /\ out.create_instance_calls = 0
            /\ unavailable = {} => out.create_instance_calls = 1
            /\ out.create_instance_calls <= 1

\* C36: every successful acquire that will signal image_available[s] is
\* followed in the same iteration by one submit that waits on
\* image_available[s], every signal of render_complete[s] is consumed by one
\* present, and no semaphore is handed to acquire or put into a submit's
\* signal list while it still carries a signal that no wait has consumed.
C36_SemaphorePairing ==
    /\ iter.semaphore_reuse = {}
    /\ (iter.acquire.made /\ pc \in {"present", "queue_wait_idle", "match_present", "idle"}) =>
           /\ iter.submitted
           /\ iter.submit.wait_semaphore = iter.acquire.semaphore
    /\ (iter.submitted /\ pc \in {"queue_wait_idle", "match_present", "idle"}) =>
           /\ iter.presented
           /\ iter.present.wait_semaphore = iter.submit.signal_semaphore

(***************************************************************************)
(* Properties of the objects rebuilt with the swapchain.                   *)
(***************************************************************************)

\* C31: every command buffer that draw_frame submits was recorded by the
\* latest initialize / recreate_swapchain against the current framebuffer i,
\* pipeline and descriptor set i: no command buffer that predates a rebuild
\* or that refers to a destroyed object is ever submitted, and while
\* draw_frame can run the command buffers refer to live objects only.
C31_SubmitsCurrentCommandBuffers ==
    /\ ~iter.stale_submit
    /\ iter.submitted =>
           /\ iter.submit.command_buffer = iter.acquire.image_index
           /\ iter.submit.command_buffer < chain.command_buffers
    /\ pc \notin {"panicked", "dropped"} =>
           /\ objects["command_buffers"] # "destroyed"
           /\ \A x \in RecordedFields :
                  command_refs[x] = "live" /\ objects[x] # "destroyed"
           /\ chain.command_buffers = chain.framebuffers
           /\ chain.command_buffers = chain.descriptor_sets
           /\ objects["swapchain"] = "rebuilt" =>
                  \A x \in RecreatedFields : objects[x] = "rebuilt"

\* A frame was submitted after a rebuild that grew the swapchain, with the
\* command buffer of the added image.
C31_Witness ==
    /\ pc = "present"
    /\ iter.submitted
    /\ cleanup_log.by = "recreate"
    /\ objects["command_buffers"] = "rebuilt"
    /\ iter.submit.command_buffer = MinImages
    /\ \A x \in RecordedFields : command_refs[x] = "live"

C35_FenceWaitsReturn ==
    /\ (pc = "wait_slot") ~> (pc # "wait_slot" \/ SlotFenceWait)
    /\ (pc = "wait_image") ~>
           (\/ pc # "wait_image"
            \/ image_index \notin DOMAIN image_fences
            \/ ImageFenceWait(image_index))

\* After a rebuild, draw_frame is at the wait on a slot fence that a
\* submission in flight has still to signal.
C35_Witness ==
    /\ pc = "wait_slot"
    /\ ~SlotFenceWait
    /\ cleanup_log.by = "recreate"
    /\ \E k \in 1 .. Len(inflight) : inflight[k].slot = current_frame

(***************************************************************************)
(* Properties of the debug configuration.                                  *)
(***************************************************************************)

\* C40: a Configuration holds at most one messenger over any sequence of
\* create_messenger calls: after a call that succeeded every later call
\* returns an error and the stored loader and messenger stay what that call
\* stored; while every call has failed the Configuration stays unconfigured;
\* dropping the Configuration destroys the messenger once if one was created
\* and destroys nothing otherwise, and the application's Drop does so while
\* the instance is still alive.
C40_AtMostOneMessenger ==
    LET c == debug_config
        succeeded == {k \in 1 .. Len(c.calls) : ~c.calls[k].is_err}
        config_dropped == \E k \in 1 .. c.drop_pos : DropCalls[k] = "debug_config"
    IN  /\ c.created <= 1
        /\ \A j, k \in 1 .. Len(c.calls) :
               (j \in succeeded /\ j < k) => c.calls[k].is_err
        /\ \A j \in succeeded :
               c.loader # 0 /\ c.messenger = c.calls[j].value
        /\ succeeded = {} => (c.loader = 0 /\ c.messenger = 0 /\ c.created = 0)
        /\ config_dropped => Len(c.destroyed) = c.created
        /\ ~config_dropped => c.destroyed = << >>
        /\ \A k \in 1 .. Len(c.destroyed) :
               /\ c.destroyed[k].messenger = c.messenger
               /\ c.destroyed[k].instance = "live"

\* A creation failed, the next one succeeded, a third call was refused, and
\* the application's Drop has destroyed the messenger and then the instance.
C40_Witness ==
    /\ Len(debug_config.calls) = 3
    /\ debug_config.calls[1].is_err
    /\ ~debug_config.calls[2].is_err
    /\ debug_config.calls[3].is_err
    /\ debug_config.destroyed = <<[messenger |-> 1, instance |-> "live"]>>
    /\ debug_config.instance = "destroyed"
    /\ debug_config.drop_pos = Len(DropCalls)

====
